---------------------------- MODULE Spec2Model ----------------------------
(***************************************************************************)
(* Model of the text-to-speech pipeline of src/lib/tts.ts: the chunker     *)
(* (splitTextIntoChunks), the synthesis adapter                            *)
(* (synthesizeChunkWithMetadata), the subtitle generator (generateSRT),    *)
(* the orchestrator (synthesizeSpeechWithSRT) and the voice catalog        *)
(* (getVoices); and of the two POST handlers of                            *)
(* src/app/api/tts-stream/route.ts that call it.  Also modelled: the pure   *)
(* functions formatSrtTime and mapSpeedToRate, the estimated subtitles     *)
(* (generateSRTFromText) and the audio-only run                            *)
(* (synthesizeSpeechWithProgress) of the older variants of the library,    *)
(* and handleGenerate of src/components/AudioOutput.tsx.                   *)
(*                                                                         *)
(* A JavaScript string is a sequence of one-character strings, indexed     *)
(* from 1 here and from 0 in the source; operators that return a source    *)
(* index (LastIndexOf, SplitIndex) return the 0-based one.  A Buffer is a  *)
(* sequence of bytes.  Times are exact rationals, kept as integers in the  *)
(* unit 1/30000 ms (a third of an engine tick), in which both              *)
(* ticks / 10000 and bytes / 6000 * 1000 are whole numbers.                *)
(***************************************************************************)
EXTENDS Integers, Sequences, FiniteSets, TLC

VARIABLES
    text,              \* the input text (of the split, or of the run)
    maxCharsPerChunk,  \* splitTextIntoChunks: its second parameter
    remainingText,     \* splitTextIntoChunks: local remainingText
    chunks,            \* splitTextIntoChunks: local chunks
    spc,               \* splitTextIntoChunks: "idle", "loop" or "done"
    voice,             \* synthesizeSpeechWithSRT: parameter voice
    rate,              \* synthesizeSpeechWithSRT: parameter rate
    onProgress,        \* synthesizeSpeechWithSRT: whether onProgress is given
    textChunks,        \* synthesizeSpeechWithSRT: local textChunks
    i,                 \* synthesizeSpeechWithSRT: loop index i
    audioBuffers,      \* synthesizeSpeechWithSRT: local audioBuffers
    allBoundaries,     \* synthesizeSpeechWithSRT: local allBoundaries
    timeOffset,        \* synthesizeSpeechWithSRT: local timeOffset
    audioChunks,       \* synthesizeChunkWithMetadata: local audioChunks
    boundaries,        \* synthesizeChunkWithMetadata: local boundaries
    pc,                \* the run: "idle", "awaiting", "done" or "failed"
    result,            \* the SynthesisResult the run returned, or NoResult
    thrown,            \* the error the run threw, or None
    log,               \* what the run did so far, in order: engine calls,
                       \* settled adapter promises, progress callbacks, the
                       \* return or throw
    srtArgs,           \* generateSRT: its arguments boundaries and timeOffset
    srtDoc,            \* generateSRT: the document it returned
    srtpc,             \* generateSRT: "idle", "called" or "returned"
    received,          \* what the engine's streams delivered to the adapter
                       \* call in progress, in order
    request,           \* POST: the request, or NoRequest
    response,          \* POST: the Response returned, or NoResponse
    sse,               \* POST: the events enqueued on the stream, in order
    closed,            \* POST: whether controller.close() was called
    other,             \* a second run of synthesizeSpeechWithSRT, suspended
                       \* at its await: its locals, or NoRun
    voicesCache,       \* the module variable voicesCache
    fetching,          \* getVoices: the calls awaiting tts.getVoices()
    vlog,              \* what getVoices calls did so far, in order
    fn,                \* a call of a pure function: its name and arguments,
                       \* or NoCall
    ret,               \* what that call returned, or NoReturn
    status,            \* AudioOutput: the state status
    errorMessage,      \* AudioOutput: the state errorMessage
    progressState,     \* AudioOutput: the state progress
    audioUrl,          \* AudioOutput: the state audioUrl, as the bytes of
                       \* the Blob the URL stands for, or NoUrl
    srtContent,        \* AudioOutput: the state srtContent
    stream,            \* handleGenerate: the events of the response body
                       \* and the number of them the loop has read
    hpc                \* handleGenerate: "idle", "fetching", "reading" or
                       \* "returned"

splitVars == <<text, maxCharsPerChunk, remainingText, chunks, spc>>
runVars == <<voice, rate, onProgress, textChunks, i, audioBuffers,
             allBoundaries, timeOffset, audioChunks, boundaries, pc, result,
             thrown, log>>
srtVars == <<srtArgs, srtDoc, srtpc>>
\* the variables the chunker and a single run do not touch
extVars == <<srtArgs, srtDoc, srtpc, received, request, response, sse, closed,
             other, voicesCache, fetching, vlog, fn, ret, status,
             errorMessage, progressState, audioUrl, srtContent, stream,
             hpc>>
routeVars == <<request, response, sse, closed>>
voicesVars == <<voicesCache, fetching, vlog>>
pureVars == <<fn, ret>>
uiVars == <<status, errorMessage, progressState, audioUrl, srtContent,
            stream, hpc>>
vars == <<text, maxCharsPerChunk, remainingText, chunks, spc, voice, rate,
          onProgress, textChunks, i, audioBuffers, allBoundaries, timeOffset,
          audioChunks, boundaries, pc, result, thrown, log, srtArgs, srtDoc,
          srtpc, received, request, response, sse, closed, other,
          voicesCache, fetching, vlog, fn, ret, status, errorMessage,
          progressState, audioUrl, srtContent, stream, hpc>>

\* no voice, no rate, no error
None == "none"
\* no SynthesisResult
NoResult == [returned |-> FALSE]
\* no request, no Response, no second run
NoRequest == [route |-> None]
NoResponse == [status |-> 0]
NoRun == [pc |-> None]
\* voicesCache = null
NullCache == [isNull |-> TRUE]
\* no call of a pure function, no value returned
NoCall == [name |-> None]
NoReturn == [returned |-> FALSE]
\* audioUrl = null
NoUrl == [isNull |-> TRUE]
\* no response body yet
NoStream == [events |-> <<>>, read |-> 0]

-----------------------------------------------------------------------------
(* Bounds of the model *)

\* longest input text of the chunker specification
MaxLen == 5
\* largest maxCharsPerChunk the chunker specification passes
MaxChunkSize == 3

\* the characters input texts are made of
Alphabet == {"a", ".", "?", " ", "\n"}
\* the characters String.prototype.trim removes, among those of Alphabet
Whitespace == {" ", "\n"}

Min(a, b) == IF a <= b THEN a ELSE b

\* all strings over Alphabet of length 0..n
Strings(n) == UNION {[1..k -> Alphabet] : k \in 0..n}

\* the chunker specification also splits every text of LongLen characters
\* of LongAlphabet into chunks of LongChunkSize: in these a sentence can
\* end in the back half of the first LongChunkSize characters with a word
\* and a space after it
LongLen == 7
LongChunkSize == 5
LongAlphabet == {"a", ".", " ", "\n"}
LongTexts == [1..LongLen -> LongAlphabet]

-----------------------------------------------------------------------------
(* String primitives used by splitTextIntoChunks *)

\* s.slice(from, to) with 0 <= from, 0-based, end exclusive
Slice(s, from, to) == SubSeq(s, Min(from, Len(s)) + 1, Min(to, Len(s)))

\* s.slice(from) gone wrong by one: the character at the split index is dropped
SliceFromSkip(s, from) == Slice(s, from + 1, Len(s))

\* a remainder from which nothing is cut off
SliceFromStart(s, from) == s

\* s.slice(from)
SliceFrom(s, from) == Slice(s, from, Len(s))

\* s.trim()
Trim(s) ==
    LET keep == {n \in 1..Len(s) : s[n] \notin Whitespace}
    IN  IF keep = {} THEN <<>>
        ELSE LET lo == CHOOSE n \in keep : \A j \in keep : n <= j
                 hi == CHOOSE n \in keep : \A j \in keep : n >= j
             IN  SubSeq(s, lo, hi)

\* s.lastIndexOf(pat, position): the largest 0-based index p <= position at
\* which pat occurs in s, or -1
LastIndexOf(s, pat, position) ==
    LET occ == {p \in 0..Min(position, Len(s) - Len(pat)) :
                    \A j \in 1..Len(pat) : s[p + j] = pat[j]}
    IN  IF occ = {} THEN -1
        ELSE CHOOSE p \in occ : \A q \in occ : q <= p

sentenceEnders ==
    << <<".", " ">>, <<"!", " ">>, <<"?", " ">>,
       <<".", "\n">>, <<"!", "\n">>, <<"?", "\n">> >>

\* the loop over sentenceEnders, from ender k on, with bestSplit = best so far
RECURSIVE BestSplitFrom(_, _, _, _)
BestSplitFrom(rem, maxChars, k, best) ==
    IF k > Len(sentenceEnders) THEN best
    ELSE LET ender == sentenceEnders[k]
             lastIndex == LastIndexOf(rem, ender, maxChars)
         IN  BestSplitFrom(rem, maxChars, k + 1,
                 IF lastIndex > best THEN lastIndex + Len(ender) - 1 ELSE best)

BestSplit(rem, maxChars) == BestSplitFrom(rem, maxChars, 1, -1)

\* a split that takes a space of the back half before it looks for the end
\* of a sentence
SplitIndexSpaceFirst(rem, maxChars) ==
    LET bestSplit == BestSplit(rem, maxChars)
        newlineIndex == LastIndexOf(rem, <<"\n">>, maxChars)
        spaceIndex == LastIndexOf(rem, <<" ">>, maxChars)
    IN  IF 2 * spaceIndex > maxChars THEN spaceIndex
        ELSE IF 2 * bestSplit > maxChars THEN bestSplit
        ELSE IF 2 * newlineIndex > maxChars THEN newlineIndex
        ELSE maxChars

\* the splitIndex one iteration of the while loop settles on, for a remaining
\* text longer than maxChars (x > maxChars * 0.5 is 2 * x > maxChars)
SplitIndex(rem, maxChars) ==
    LET bestSplit == BestSplit(rem, maxChars)
        newlineIndex == LastIndexOf(rem, <<"\n">>, maxChars)
        spaceIndex == LastIndexOf(rem, <<" ">>, maxChars)
    IN  IF 2 * bestSplit > maxChars THEN bestSplit
        ELSE IF 2 * newlineIndex > maxChars THEN newlineIndex
        ELSE IF 2 * spaceIndex > maxChars THEN spaceIndex
        ELSE maxChars

\* splitTextIntoChunks as a function: the chunks of the while loop started
\* with remainingText = rem and chunks = acc
RECURSIVE SplitLoop(_, _, _)
SplitLoop(rem, maxChars, acc) ==
    IF Len(rem) = 0 THEN acc
    ELSE IF Len(rem) <= maxChars THEN Append(acc, rem)
    ELSE LET splitIndex == SplitIndex(rem, maxChars)
         IN  SplitLoop(Trim(SliceFrom(rem, splitIndex)), maxChars,
                       Append(acc, Trim(Slice(rem, 0, splitIndex))))

splitTextIntoChunks(t, maxChars) == SplitLoop(Trim(t), maxChars, <<>>)

-----------------------------------------------------------------------------
(* Time arithmetic.  A number of milliseconds m is kept as m * MsScale and  *)
(* a number of ticks t as t * TickScale, so that every quotient below is    *)
(* exact.                                                                    *)

\* one tick is 1/10000 ms and one byte of audio 1/6 ms: both are whole in
\* units of 1/30000 ms
MsScale == 3 * 10000
TickScale == MsScale \div 10000

\* ticksToMs(ticks) = ticks / 10000
ticksToMs(ticks) == ticks * (MsScale \div (10000 * TickScale))

\* timeOffset * 10000, "convert ms to ticks"
MsToTicks(ms) == ms * ((10000 * TickScale) \div MsScale)

\* (audio.length / 6000) * 1000
EstimatedDurationMs(audio) == Len(audio) * ((1000 * MsScale) \div 6000)

-----------------------------------------------------------------------------
(* formatSrtTime *)

DigitChars == <<"0", "1", "2", "3", "4", "5", "6", "7", "8", "9">>

\* String(n) for an integer n >= 0
RECURSIVE NumberToString(_)
NumberToString(n) ==
    IF n < 10 THEN <<DigitChars[n + 1]>>
    ELSE Append(NumberToString(n \div 10), DigitChars[(n % 10) + 1])

\* s.padStart(n, c)
RECURSIVE PadStart(_, _, _)
PadStart(s, n, c) == IF Len(s) >= n THEN s ELSE PadStart(<<c>> \o s, n, c)

\* A time is handed to formatSrtTime as a whole number x of units, unit of
\* them to the millisecond: unit is MsScale inside generateSRT, and 1 where
\* the argument is a whole number of milliseconds.

\* Math.floor(x / d) for x >= 0 and an integer d > 0: the floor of x / d is
\* the floor of Math.floor(x) / d (products with MsScale would leave the
\* 32-bit integers of the checker)
FloorDiv(unit, x, d) == (x \div unit) \div d

\* a remainder that was never taken
ModuloNone(unit, x, d) == x

\* x % d for x >= 0 and an integer d > 0: the fraction of x is kept
Modulo(unit, x, d) == ((x \div unit) % d) * unit + (x % unit)

formatSrtTimeIn(unit, ms) ==
    LET hours == FloorDiv(unit, ms, 3600000)
        minutes == FloorDiv(unit, Modulo(unit, ms, 3600000), 60000)
        seconds == FloorDiv(unit, Modulo(unit, ms, 60000), 1000)
        milliseconds == FloorDiv(unit, Modulo(unit, ms, 1000), 1)
    IN  PadStart(NumberToString(hours), 2, "0") \o <<":">>
        \o PadStart(NumberToString(minutes), 2, "0") \o <<":">>
        \o PadStart(NumberToString(seconds), 2, "0") \o <<",">>
        \o PadStart(NumberToString(milliseconds), 3, "0")

\* formatSrtTime(ms), ms in units of 1/MsScale ms
formatSrtTime(ms) == formatSrtTimeIn(MsScale, ms)

-----------------------------------------------------------------------------
(* generateSRT.  The SRT document is the sequence of its cues, each the     *)
(* index, the two timestamps and the words of its text line (joined by one  *)
(* space in the source); the empty document is the empty string.            *)

WORDS_PER_SUBTITLE == 10

\* a test that finds no end of a sentence
isEndOfSentenceNever(t) == FALSE

\* text.match(/[.!?]$/)
isEndOfSentence(t) == Len(t) > 0 /\ t[Len(t)] \in {".", "!", "?"}

\* a cue whose text line misses the first word of the group
SubtitleWithoutFirstWord(subtitleIndex, currentWords) ==
    [index |-> subtitleIndex,
     start |-> formatSrtTime(currentWords[1].startMs),
     end |-> formatSrtTime(currentWords[Len(currentWords)].endMs),
     text |-> [k \in 1..(Len(currentWords) - 1) |-> currentWords[k + 1].text]]

\* the cue pushed for the words in currentWords
Subtitle(subtitleIndex, currentWords) ==
    [index |-> subtitleIndex,
     start |-> formatSrtTime(currentWords[1].startMs),
     end |-> formatSrtTime(currentWords[Len(currentWords)].endMs),
     text |-> [k \in 1..Len(currentWords) |-> currentWords[k].text]]

\* the for loop of generateSRT from boundary k on, and the flush after it
RECURSIVE SrtLoop(_, _, _, _, _)
SrtLoop(bs, timeOff, k, subtitles, currentWords) ==
    IF k > Len(bs)
    THEN IF Len(currentWords) > 0
         THEN Append(subtitles, Subtitle(Len(subtitles) + 1, currentWords))
         ELSE subtitles
    ELSE LET boundary == bs[k]
             t == Trim(boundary.Text)
         IN  IF Len(t) = 0 \/ boundary.BoundaryType = "PunctuationBoundary"
             THEN SrtLoop(bs, timeOff, k + 1, subtitles, currentWords)
             ELSE LET startMs == ticksToMs(boundary.Offset) + timeOff
                      endMs == startMs + ticksToMs(boundary.Duration)
                      words == Append(currentWords,
                                 [text |-> t, startMs |-> startMs, endMs |-> endMs])
                  IN  IF Len(words) >= WORDS_PER_SUBTITLE \/ isEndOfSentence(t)
                      THEN SrtLoop(bs, timeOff, k + 1,
                             Append(subtitles, Subtitle(Len(subtitles) + 1, words)),
                             <<>>)
                      ELSE SrtLoop(bs, timeOff, k + 1, subtitles, words)

generateSRT(bs, timeOff) ==
    IF Len(bs) = 0 THEN <<>> ELSE SrtLoop(bs, timeOff, 1, <<>>, <<>>)

-----------------------------------------------------------------------------
(* Inputs of a run and of the engine *)

\* MAX_CHARS_PER_CHUNK is 3000 in the source; the model runs the same code
\* with a small value so that the texts of a run stay short
MAX_CHARS_PER_CHUNK == 4
\* most WordBoundary events the engine sends during one run
MaxMetadata == 2
\* most audio 'data' events the engine sends for one chunk
MaxAudioData == 1

\* texts of 0, 1, 2, 2 and 3 chunks
RunTexts ==
    { <<" ", " ">>,
      <<"a", "a">>,
      <<"a", "a", "a", ".", " ", "a", "a">>,
      <<"a", "a", "a", "a", ".", " ", "a", "a">>,
      <<"a", "a", "a", ".", " ", "a", "a", "a", ".", " ", "a", "a">> }

Voices == {"en-US-AriaNeural", "id-ID-ArdiNeural"}
Rates == {"+0%", "+25%"}
Errors == {"stream error", "connection closed"}

\* the rate the engine speaks at when toStream is given no prosody options
EngineDefaultRate == "+0%"

\* the Buffers the audio stream delivers for chunk k: 9 bytes (1.5 ms of
\* audio) that name the chunk
AudioData(k) == { [n \in 1..9 |-> 10 * k + n] }

Metadata(type, offset, duration, txt, boundaryType) ==
    [Type |-> type, Offset |-> offset * TickScale,
     Duration |-> duration * TickScale, Text |-> txt,
     BoundaryType |-> boundaryType]

\* the parsed payloads the metadata stream delivers (offsets and durations
\* in ticks); within one chunk they arrive in time order
MetadataEvents ==
    { Metadata("WordBoundary", 0, 10000, <<"w">>, "WordBoundary"),
      Metadata("WordBoundary", 20000, 5000, <<"w", ".">>, "WordBoundary"),
      Metadata("WordBoundary", 20000, 0, <<".">>, "PunctuationBoundary"),
      Metadata("SessionEnd", 0, 0, <<>>, "") }

\* a payload JSON.parse throws on
Malformed == "malformed"

-----------------------------------------------------------------------------
(* Buffer.concat *)

RECURSIVE Concat(_)
Concat(bufs) == IF Len(bufs) = 0 THEN <<>> ELSE Head(bufs) \o Concat(Tail(bufs))

-----------------------------------------------------------------------------
(* The run: synthesizeSpeechWithSRT and the adapter calls it awaits *)

Idle ==
    /\ voice = None
    /\ rate = None
    /\ onProgress = FALSE
    /\ textChunks = <<>>
    /\ i = 0
    /\ audioBuffers = <<>>
    /\ allBoundaries = <<>>
    /\ timeOffset = 0
    /\ audioChunks = <<>>
    /\ boundaries = <<>>
    /\ pc = "idle"
    /\ result = NoResult
    /\ thrown = None
    /\ log = <<>>

\* generateSRT is not running
SrtIdle ==
    /\ srtArgs = [boundaries |-> <<>>, timeOffset |-> 0]
    /\ srtDoc = <<>>
    /\ srtpc = "idle"

\* no request was received
RouteIdle ==
    /\ request = NoRequest
    /\ response = NoResponse
    /\ sse = <<>>
    /\ closed = FALSE

\* getVoices was never called
VoicesIdle ==
    /\ voicesCache = NullCache
    /\ fetching = {}
    /\ vlog = <<>>

\* no pure function is called on its own
PureIdle ==
    /\ fn = NoCall
    /\ ret = NoReturn

\* the component as mounted: useState('idle'), useState('')
UiIdle ==
    /\ status = "idle"
    /\ errorMessage = ""
    /\ progressState = [current |-> 0, total |-> 0, percent |-> 0]
    /\ audioUrl = NoUrl
    /\ srtContent = <<>>
    /\ stream = NoStream
    /\ hpc = "idle"

\* the variables the chunker and a single run do not touch, at rest
ExtIdle ==
    /\ SrtIdle
    /\ received = <<>>
    /\ RouteIdle
    /\ other = NoRun
    /\ VoicesIdle
    /\ PureIdle
    /\ UiIdle

\* synthesizeChunkWithMetadata(chunk, v): what reaches the engine is the
\* voice (setMetadata) and the text (toStream); no prosody option is passed
CallEntry(k, chunk, v) ==
    [type |-> "call", chunk |-> k, text |-> chunk, voice |-> v,
     rate |-> EngineDefaultRate]

\* a percentage that is cut off, not rounded
PercentFloor(x, y) == (100 * x) \div y

\* Math.round(x / y * 100) for x, y > 0
Percent(x, y) == (200 * x + y) \div (2 * y)

\* a progress event that reports the loop index i, not i + 1
ProgressEntryZeroBased(current, tot) ==
    [type |-> "progress", current |-> current - 1, total |-> tot,
     percent |-> Percent(current, tot)]

ProgressEntry(current, tot) ==
    [type |-> "progress", current |-> current, total |-> tot,
     percent |-> Percent(current, tot)]

\* a boundary pushed on allBoundaries as the engine sent it, not shifted
AdjustedBoundaryUnshifted(boundary, timeOff) == boundary

\* the boundary pushed on allBoundaries for a boundary of the chunk
AdjustedBoundary(boundary, timeOff) ==
    [boundary EXCEPT !.Offset = boundary.Offset + MsToTicks(timeOff)]

\* a return that keeps the audio of the last chunk only
FinishLastOnly(bufs, bs) ==
    [audio |-> IF Len(bufs) = 0 THEN <<>> ELSE bufs[Len(bufs)],
     srt |-> generateSRT(bs, 0)]

\* what the function returns after the loop
Finish(bufs, bs) == [audio |-> Concat(bufs), srt |-> generateSRT(bs, 0)]

\* a run that starts the adapter calls of all its chunks at once
StartRunParallel(t, v, r, cb) ==
    /\ pc = "idle"
    /\ text' = t
    /\ voice' = v
    /\ rate' = r
    /\ onProgress' = cb
    /\ textChunks' = splitTextIntoChunks(t, MAX_CHARS_PER_CHUNK)
    /\ IF Len(textChunks') = 0
       THEN /\ pc' = "done"
            /\ result' = [audio |-> <<>>, srt |-> <<>>]
            /\ log' = <<[type |-> "return"]>>
       ELSE /\ pc' = "awaiting"
            /\ result' = NoResult
            /\ log' = [k \in 1..Len(textChunks') |->
                          [type |-> "call", chunk |-> k,
                           text |-> textChunks'[k], voice |-> v,
                           rate |-> EngineDefaultRate]]
    /\ UNCHANGED <<maxCharsPerChunk, remainingText, chunks, spc, i,
                   audioBuffers, allBoundaries, timeOffset, audioChunks,
                   boundaries, thrown>>

\* synthesizeSpeechWithSRT(t, v, r, onProgress) is called and runs up to its
\* first await, or to its return when there is no chunk
StartRun(t, v, r, cb) ==
    /\ pc = "idle"
    /\ text' = t
    /\ voice' = v
    /\ rate' = r
    /\ onProgress' = cb
    /\ textChunks' = splitTextIntoChunks(t, MAX_CHARS_PER_CHUNK)
    /\ IF Len(textChunks') = 0
       THEN /\ pc' = "done"
            /\ result' = Finish(<<>>, <<>>)
            /\ log' = <<[type |-> "return"]>>
       ELSE /\ pc' = "awaiting"
            /\ result' = NoResult
            /\ log' = <<CallEntry(1, textChunks'[1], v)>>
    /\ UNCHANGED <<maxCharsPerChunk, remainingText, chunks, spc, i,
                   audioBuffers, allBoundaries, timeOffset, audioChunks,
                   boundaries, thrown>>

\* audioStream.on('data')
OnAudioData(chunk) ==
    /\ pc = "awaiting"
    /\ Len(audioChunks) < MaxAudioData
    /\ audioChunks' = Append(audioChunks, chunk)
    /\ UNCHANGED <<text, maxCharsPerChunk, remainingText, chunks, spc, voice,
                   rate, onProgress, textChunks, i, audioBuffers,
                   allBoundaries, timeOffset, boundaries, pc, result, thrown,
                   log>>

\* metadataStream.on('data') with a payload that parses
OnMetadata(metadata) ==
    /\ pc = "awaiting"
    /\ Len(allBoundaries) + Len(boundaries) < MaxMetadata
    /\ Len(boundaries) > 0 =>
           boundaries[Len(boundaries)].Offset <= metadata.Offset
    /\ boundaries' = IF metadata.Type = "WordBoundary"
                     THEN Append(boundaries, metadata)
                     ELSE boundaries
    /\ UNCHANGED <<text, maxCharsPerChunk, remainingText, chunks, spc, voice,
                   rate, onProgress, textChunks, i, audioBuffers,
                   allBoundaries, timeOffset, audioChunks, pc, result, thrown,
                   log>>

\* a handler that lets the parse error fail the adapter call
OnMalformedMetadataRejects ==
    /\ pc = "awaiting"
    /\ pc' = "failed"
    /\ thrown' = "SyntaxError"
    /\ log' = log \o <<[type |-> "reject", chunk |-> i + 1,
                         error |-> "SyntaxError"],
                       [type |-> "throw", error |-> "SyntaxError"]>>
    /\ UNCHANGED <<text, maxCharsPerChunk, remainingText, chunks, spc, voice,
                   rate, onProgress, textChunks, i, audioBuffers,
                   allBoundaries, timeOffset, audioChunks, boundaries, result>>

\* metadataStream.on('data') with a payload JSON.parse throws on
OnMalformedMetadata ==
    /\ pc = "awaiting"
    /\ UNCHANGED <<splitVars, runVars>>

\* metadataStream.on('data') once the audio stream has ended and the run has
\* returned: the handler pushes the event on the boundaries array of the
\* call, which the loop has read already (lines 287 to 292) and which
\* nothing reads again
OnLateMetadata(metadata) ==
    /\ pc = "done"
    /\ Len(allBoundaries) > 0 =>
           allBoundaries[Len(allBoundaries)].Offset <= metadata.Offset
    /\ UNCHANGED <<splitVars, runVars>>

\* audioStream.on('end'): the adapter's promise resolves and the loop body
\* runs from the await to the next await, or to the return
OnAudioEnd ==
    /\ pc = "awaiting"
    /\ LET tot == Len(textChunks)
           audio == Concat(audioChunks)
           shifted == [k \in 1..Len(boundaries) |->
                          AdjustedBoundary(boundaries[k], timeOffset)]
           settled == <<[type |-> "resolve", chunk |-> i + 1, audio |-> audio,
                         boundaries |-> boundaries]>>
           progress == IF onProgress THEN <<ProgressEntry(i + 1, tot)>>
                       ELSE <<>>
       IN  /\ audioBuffers' = Append(audioBuffers, audio)
           /\ allBoundaries' = allBoundaries \o shifted
           /\ timeOffset' = timeOffset + EstimatedDurationMs(audio)
           /\ i' = i + 1
           /\ IF i + 1 < tot
              THEN /\ log' = log \o settled \o progress
                              \o <<CallEntry(i + 2, textChunks[i + 2], voice)>>
                   /\ UNCHANGED <<pc, result>>
              ELSE /\ log' = log \o settled \o progress
                              \o <<[type |-> "return"]>>
                   /\ pc' = "done"
                   /\ result' = Finish(audioBuffers', allBoundaries')
    /\ audioChunks' = <<>>
    /\ boundaries' = <<>>
    /\ UNCHANGED <<text, maxCharsPerChunk, remainingText, chunks, spc, voice,
                   rate, onProgress, textChunks, thrown>>

\* a rejected adapter call after which the run returns what it has so far
OnAudioErrorPartial(err) ==
    /\ pc = "awaiting"
    /\ pc' = "done"
    /\ result' = [audio |-> Concat(audioBuffers),
                  srt |-> generateSRT(allBoundaries, 0)]
    /\ log' = log \o <<[type |-> "reject", chunk |-> i + 1, error |-> err],
                       [type |-> "return"]>>
    /\ UNCHANGED <<text, maxCharsPerChunk, remainingText, chunks, spc, voice,
                   rate, onProgress, textChunks, i, audioBuffers,
                   allBoundaries, timeOffset, audioChunks, boundaries, thrown>>

\* audioStream.on('error'): the adapter's promise rejects and the run throws
OnAudioError(err) ==
    /\ pc = "awaiting"
    /\ pc' = "failed"
    /\ thrown' = err
    /\ log' = log \o <<[type |-> "reject", chunk |-> i + 1, error |-> err],
                       [type |-> "throw", error |-> err]>>
    /\ UNCHANGED <<text, maxCharsPerChunk, remainingText, chunks, spc, voice,
                   rate, onProgress, textChunks, i, audioBuffers,
                   allBoundaries, timeOffset, audioChunks, boundaries, result>>

-----------------------------------------------------------------------------
(* The chunker, one loop iteration per step *)

\* splitTextIntoChunks(text, maxCharsPerChunk) is called
SplitInit ==
    /\ \/ /\ text \in Strings(MaxLen)
          /\ maxCharsPerChunk \in 1..MaxChunkSize
       \/ /\ text \in LongTexts
          /\ maxCharsPerChunk = LongChunkSize
    /\ remainingText = Trim(text)
    /\ chunks = <<>>
    /\ spc = "loop"
    /\ Idle
    /\ ExtIdle

\* a loop that tests its condition after the body: a text without a
\* character gives one empty chunk
SplitLastPushesEmpty ==
    /\ spc = "loop"
    /\ Len(remainingText) <= maxCharsPerChunk
    /\ chunks' = Append(chunks, remainingText)
    /\ spc' = "done"
    /\ UNCHANGED <<text, maxCharsPerChunk, remainingText>>
    /\ UNCHANGED <<runVars, extVars>>

\* an iteration that ends the loop: nothing remains, or the rest fits
SplitLast ==
    /\ spc = "loop"
    /\ Len(remainingText) <= maxCharsPerChunk
    /\ chunks' = IF Len(remainingText) = 0 THEN chunks
                 ELSE Append(chunks, remainingText)
    /\ spc' = "done"
    /\ UNCHANGED <<text, maxCharsPerChunk, remainingText>>
    /\ UNCHANGED <<runVars, extVars>>

\* an iteration that cuts one chunk off the remaining text
SplitStep ==
    /\ spc = "loop"
    /\ Len(remainingText) > maxCharsPerChunk
    /\ LET splitIndex == SplitIndex(remainingText, maxCharsPerChunk)
       IN  /\ chunks' = Append(chunks, Trim(Slice(remainingText, 0, splitIndex)))
           /\ remainingText' = Trim(SliceFrom(remainingText, splitIndex))
    /\ UNCHANGED <<text, maxCharsPerChunk, spc>>
    /\ UNCHANGED <<runVars, extVars>>

SplitNext == SplitLast \/ SplitStep

SpecSplit == SplitInit /\ [][SplitNext]_vars

-----------------------------------------------------------------------------
(* The routes of src/app/api/tts-stream/route.ts: the streaming POST and    *)
(* the audio-only POST.  A request body is the record of the fields it has. *)

\* the longest text a route accepts: 50000 in the source; the model runs the
\* same code with a small value
MaxTextLength == 12

\* a text of n characters without a break
Fill(n) == [k \in 1..n |-> "a"]

\* the texts of requests: empty, blank, of 1, 2 and 3 chunks, the last one of
\* exactly MaxTextLength characters, and one character longer than that
RouteTexts ==
    { <<>>,
      <<" ", " ">>,
      <<"a", "a">>,
      <<"a", "a", "a", ".", " ", "a", "a">>,
      Fill(MaxTextLength),
      Fill(MaxTextLength + 1) }

\* the voices of requests; the empty string is falsy
RouteVoices == {"", "en-US-AriaNeural"}

\* the speeds of requests, in hundredths
Speeds == {100, 125}

\* a body request.json() throws on
NotJson == [malformed |-> TRUE]

\* the bodies of requests: with or without text, voice and speed
RequestBodies ==
    {NotJson}
    \cup {[text |-> t, voice |-> v] : t \in RouteTexts, v \in RouteVoices}
    \cup {[text |-> t, voice |-> v, speed |-> sp] :
              t \in RouteTexts, v \in {"en-US-AriaNeural"}, sp \in Speeds}
    \cup {[text |-> t] : t \in RouteTexts}
    \cup {[voice |-> v] : v \in RouteVoices}

Routes == {"tts-stream", "tts"}

\* a rate without the '+' of the values >= 0
mapSpeedToRateUnsigned(speed) ==
    IF speed >= 100
    THEN NumberToString(speed - 100) \o <<"%">>
    ELSE <<"-">> \o NumberToString(100 - speed) \o <<"%">>

\* mapSpeedToRate(speed) for a speed given in hundredths:
\* Math.round((speed - 1) * 100) is speed - 100 (the product of the source is
\* within 10^-13 of that whole number, so Math.round returns it)
mapSpeedToRate(speed) ==
    LET percentage == speed - 100
    IN  IF percentage >= 0
        THEN <<"+">> \o NumberToString(percentage) \o <<"%">>
        ELSE <<"-">> \o NumberToString(0 - percentage) \o <<"%">>

\* a chunk count taken from the length of the text alone
getChunkCountByLength(t) ==
    (Len(t) + MAX_CHARS_PER_CHUNK - 1) \div MAX_CHARS_PER_CHUNK

getChunkCount(t) == Len(splitTextIntoChunks(t, MAX_CHARS_PER_CHUNK))

\* !text || !voice
MissingParameter(body) ==
    \/ "text" \notin DOMAIN body
    \/ "voice" \notin DOMAIN body
    \/ Len(body.text) = 0
    \/ body.voice = ""

\* a length check that also turns away a text of exactly the limit
TooLongAtLimit(t) == Len(t) >= MaxTextLength

\* text.length > 50000
TooLong(t) == Len(t) > MaxTextLength

\* Buffer.toString('base64')
Base64Chars ==
    << "A", "B", "C", "D", "E", "F", "G", "H", "I", "J", "K", "L", "M",
       "N", "O", "P", "Q", "R", "S", "T", "U", "V", "W", "X", "Y", "Z",
       "a", "b", "c", "d", "e", "f", "g", "h", "i", "j", "k", "l", "m",
       "n", "o", "p", "q", "r", "s", "t", "u", "v", "w", "x", "y", "z",
       "0", "1", "2", "3", "4", "5", "6", "7", "8", "9", "+", "/" >>

RECURSIVE ToBase64(_)
ToBase64(buf) ==
    IF Len(buf) = 0 THEN <<>>
    ELSE LET b2 == IF Len(buf) > 1 THEN buf[2] ELSE 0
             b3 == IF Len(buf) > 2 THEN buf[3] ELSE 0
             n == (buf[1] * 256 + b2) * 256 + b3
         IN  << Base64Chars[((n \div (64 * 64 * 64)) % 64) + 1],
                Base64Chars[((n \div (64 * 64)) % 64) + 1],
                IF Len(buf) > 1 THEN Base64Chars[((n \div 64) % 64) + 1]
                ELSE "=",
                IF Len(buf) > 2 THEN Base64Chars[(n % 64) + 1] ELSE "=" >>
             \o ToBase64(SubSeq(buf, 4, Len(buf)))

\* the events the streaming route enqueues
StartEvent(totalChunks) == [type |-> "start", totalChunks |-> totalChunks]
CompleteEvent(res) ==
    [type |-> "complete", audio |-> ToBase64(res.audio), srt |-> res.srt]
ErrorEvent == [type |-> "error", message |-> "Failed to generate speech"]

\* the Responses of the routes
BadRequest(error) == [status |-> 400, error |-> error]
ServerError == [status |-> 500, error |-> "Failed to synthesize speech"]
EventStream == [status |-> 200, contentType |-> "text/event-stream"]
AudioResponse(audioBuffer) ==
    [status |-> 200, contentType |-> "audio/mpeg", body |-> audioBuffer,
     contentLength |-> NumberToString(Len(audioBuffer))]

\* a stream that reports a failure of the run twice
RECURSIVE EmittedErrorTwice(_, _)
EmittedErrorTwice(entries, res) ==
    IF Len(entries) = 0 THEN <<>>
    ELSE LET e == Head(entries)
         IN  (CASE e.type = "progress" -> <<e>>
                [] e.type = "return" -> <<CompleteEvent(res)>>
                [] e.type = "throw" -> <<ErrorEvent, ErrorEvent>>
                [] OTHER -> <<>>)
             \o EmittedErrorTwice(Tail(entries), res)

\* what start(controller) enqueues for what the run did: the progress
\* callback spreads the ProgressInfo into a 'progress' event, the return is
\* followed by 'complete' and the throw is caught and followed by 'error'
RECURSIVE Emitted(_, _)
Emitted(entries, res) ==
    IF Len(entries) = 0 THEN <<>>
    ELSE LET e == Head(entries)
         IN  (CASE e.type = "progress" -> <<e>>
                [] e.type = "return" -> <<CompleteEvent(res)>>
                [] e.type = "throw" -> <<ErrorEvent>>
                [] OTHER -> <<>>)
             \o Emitted(Tail(entries), res)

\* POST is called with a request: the handler runs to its first await on
\* the run, or to its return
Post(route, body) ==
    /\ request = NoRequest
    /\ pc = "idle"
    /\ request' = [route |-> route, body |-> body]
    /\ IF "malformed" \in DOMAIN body
       THEN /\ response' = ServerError
            /\ UNCHANGED <<splitVars, runVars, sse, closed>>
       ELSE IF MissingParameter(body)
       THEN /\ response' = BadRequest("Text and voice are required")
            /\ UNCHANGED <<splitVars, runVars, sse, closed>>
       ELSE IF TooLong(body.text)
       THEN /\ response' = BadRequest("Text too long. Maximum 50000 characters.")
            /\ UNCHANGED <<splitVars, runVars, sse, closed>>
       ELSE LET speed == IF "speed" \in DOMAIN body THEN body.speed ELSE 100
                totalChunks == getChunkCount(body.text)
            IN  IF route = "tts-stream"
                THEN /\ StartRun(body.text, body.voice, mapSpeedToRate(speed),
                                 TRUE)
                     /\ sse' = <<StartEvent(totalChunks)>>
                               \o Emitted(log', result')
                     /\ closed' = (pc' = "done")
                     /\ response' = EventStream
                ELSE /\ StartRun(body.text, body.voice, mapSpeedToRate(speed),
                                 FALSE)
                     /\ response' = IF pc' = "done"
                                    THEN AudioResponse(result'.audio)
                                    ELSE NoResponse
                     /\ UNCHANGED <<sse, closed>>

\* what the route does when the run moves on: the streaming route enqueues
\* events and closes the stream after 'complete' or 'error', the audio-only
\* route answers once the run has returned or thrown
Relay ==
    LET new == SubSeq(log', Len(log) + 1, Len(log'))
    IN  IF request.route = "tts-stream"
        THEN /\ sse' = sse \o Emitted(new, result')
             /\ closed' = (closed \/ pc' \in {"done", "failed"})
             /\ UNCHANGED <<request, response>>
        ELSE /\ response' = IF pc' = "done" THEN AudioResponse(result'.audio)
                            ELSE IF pc' = "failed" THEN ServerError
                            ELSE response
             /\ UNCHANGED <<request, sse, closed>>

\* the variables the routes do not touch
routeRest == <<srtArgs, srtDoc, srtpc, received, other, voicesCache,
               fetching, vlog, pureVars, uiVars>>

RouteNext ==
    \/ \E route \in Routes, body \in RequestBodies :
           Post(route, body) /\ UNCHANGED routeRest
    \/ \E chunk \in AudioData(i + 1) :
           OnAudioData(chunk) /\ Relay /\ UNCHANGED routeRest
    \/ \E metadata \in MetadataEvents :
           OnMetadata(metadata) /\ Relay /\ UNCHANGED routeRest
    \/ OnMalformedMetadata /\ Relay /\ UNCHANGED routeRest
    \/ OnAudioEnd /\ Relay /\ UNCHANGED routeRest
    \/ \E err \in Errors : OnAudioError(err) /\ Relay /\ UNCHANGED routeRest

-----------------------------------------------------------------------------
(* generateSRT on its own: called on a list of boundaries, then returned *)

\* most boundaries of an input after its run of plain words
MaxSrtEvents == 4

\* what a boundary can be: a word, a word that ends a sentence, a
\* punctuation mark, blanks only, a word with blanks around it
SrtKinds == {"word", "sentence", "punctuation", "blank", "padded"}

\* the boundary of a kind that is number k after the plain words and number
\* p of the list: boundary p starts at p - 1 ms and lasts half a millisecond
SrtEvent(kind, k, p) ==
    LET d == DigitChars[k + 1]
        txt == CASE kind = "word" -> <<"w", d>>
                 [] kind = "sentence" -> <<"w", d, ".">>
                 [] kind = "punctuation" -> <<".">>
                 [] kind = "blank" -> <<" ", " ">>
                 [] kind = "padded" -> <<" ", "w", d, " ">>
    IN  Metadata("WordBoundary", (p - 1) * 10000, 5000, txt,
                 IF kind = "punctuation" THEN "PunctuationBoundary"
                 ELSE "WordBoundary")

\* n plain words p1, p2, ...
PlainWords(n) ==
    [p \in 1..n |->
        Metadata("WordBoundary", (p - 1) * 10000, 5000,
                 <<"p", DigitChars[p + 1]>>, "WordBoundary")]

\* the lists generateSRT is called on: none or WORDS_PER_SUBTITLE - 1 plain
\* words, then up to MaxSrtEvents boundaries of any kind
SrtInputs ==
    { PlainWords(n) \o [k \in 1..Len(ks) |-> SrtEvent(ks[k], k, n + k)] :
          n \in {0, WORDS_PER_SUBTITLE - 1},
          ks \in UNION {[1..m -> SrtKinds] : m \in 0..MaxSrtEvents} }

\* the timeOffset arguments: the default, and a second and a half
SrtTimeOffsets == {0, 1500 * MsScale}

\* generateSRT(boundaries, timeOffset) is called
SrtInit ==
    /\ srtArgs \in [boundaries : SrtInputs, timeOffset : SrtTimeOffsets]
    /\ srtDoc = <<>>
    /\ srtpc = "called"
    /\ text = <<>>
    /\ maxCharsPerChunk = MAX_CHARS_PER_CHUNK
    /\ remainingText = <<>>
    /\ chunks = <<>>
    /\ spc = "idle"
    /\ Idle
    /\ received = <<>>
    /\ RouteIdle
    /\ other = NoRun
    /\ VoicesIdle
    /\ PureIdle
    /\ UiIdle

\* generateSRT returns
SrtReturn ==
    /\ srtpc = "called"
    /\ srtDoc' = generateSRT(srtArgs.boundaries, srtArgs.timeOffset)
    /\ srtpc' = "returned"
    /\ UNCHANGED <<srtArgs, splitVars, runVars, received, routeVars, other,
                   voicesVars, pureVars, uiVars>>

SrtNext == SrtReturn

SpecSrt == SrtInit /\ [][SrtNext]_vars

-----------------------------------------------------------------------------
(* The run specification *)

Init ==
    /\ text = <<>>
    /\ maxCharsPerChunk = MAX_CHARS_PER_CHUNK
    /\ remainingText = <<>>
    /\ chunks = <<>>
    /\ spc = "idle"
    /\ Idle
    /\ ExtIdle

Next ==
    \/ \E t \in RunTexts, v \in Voices, r \in Rates, cb \in BOOLEAN :
           StartRun(t, v, r, cb) /\ UNCHANGED extVars
    \/ \E chunk \in AudioData(i + 1) :
           OnAudioData(chunk) /\ UNCHANGED extVars
    \/ \E metadata \in MetadataEvents :
           OnMetadata(metadata) /\ UNCHANGED extVars
    \/ OnMalformedMetadata /\ UNCHANGED extVars
    \/ OnAudioEnd /\ UNCHANGED extVars
    \/ \E err \in Errors : OnAudioError(err) /\ UNCHANGED extVars

Spec == Init /\ [][Next]_vars

\* one request to one of the routes
SpecRoute == Init /\ [][RouteNext]_vars

-----------------------------------------------------------------------------
(* formatSrtTime on its own, over whole numbers of milliseconds *)

\* the hours of the arguments run up to MaxHours; 99 and 100 hours are
\* arguments too
MaxHours == 2

\* the arguments: every field at its least and greatest values
FormatInputs ==
    { ((h * 60 + m) * 60 + s) * 1000 + f :
          h \in (0..MaxHours) \cup {99, 100}, m \in {0, 1, 59},
          s \in {0, 1, 59}, f \in {0, 1, 99, 500, 999} }

\* everything but the call of a pure function is at rest
PureRest ==
    /\ text = <<>>
    /\ maxCharsPerChunk = MAX_CHARS_PER_CHUNK
    /\ remainingText = <<>>
    /\ chunks = <<>>
    /\ spc = "idle"
    /\ Idle
    /\ SrtIdle
    /\ received = <<>>
    /\ RouteIdle
    /\ other = NoRun
    /\ VoicesIdle
    /\ UiIdle

pureRest == <<splitVars, runVars, srtVars, received, routeVars, other,
              voicesVars, uiVars>>

\* formatSrtTime(ms) is called
FormatInit ==
    /\ fn \in [name : {"formatSrtTime"}, ms : FormatInputs]
    /\ ret = NoReturn
    /\ PureRest

\* formatSrtTime returns
FormatReturn ==
    /\ fn.name = "formatSrtTime"
    /\ ret = NoReturn
    /\ ret' = [returned |-> TRUE, value |-> formatSrtTimeIn(1, fn.ms)]
    /\ UNCHANGED <<fn, pureRest>>

FormatNext == FormatReturn

SpecFormat == FormatInit /\ [][FormatNext]_vars

-----------------------------------------------------------------------------
(* mapSpeedToRate on its own *)

\* the speeds 0.5 to 2.0 in steps of 0.01, in hundredths
RateInputs == 50..200

\* mapSpeedToRate(speed) is called
RateInit ==
    /\ fn \in [name : {"mapSpeedToRate"}, speed : RateInputs]
    /\ ret = NoReturn
    /\ PureRest

\* mapSpeedToRate returns
RateReturn ==
    /\ fn.name = "mapSpeedToRate"
    /\ ret = NoReturn
    /\ ret' = [returned |-> TRUE, value |-> mapSpeedToRate(fn.speed)]
    /\ UNCHANGED <<fn, pureRest>>

RateNext == RateReturn

SpecRate == RateInit /\ [][RateNext]_vars

-----------------------------------------------------------------------------
(* generateSRTFromText, the estimated timing of part_003, on its own.       *)
(* Its times are fractions of a millisecond with the denominator            *)
(* speed * words.length (speed in hundredths), kept as whole numbers of     *)
(* units of 1 / (speed * words.length) ms: every quotient is exact.         *)

\* the group size of part_003; WORDS_PER_SUBTITLE is the one of tts.ts
WORDS_PER_SUBTITLE_ESTIMATION == 8

\* the texts have up to MaxWords words
MaxWords == 50

\* text.trim().split(/\s+/).filter(w => w.length > 0): the words of t are
\* its longest runs of characters that are not whitespace, in order
WordStarts(t) ==
    { k \in 1..Len(t) :
          t[k] \notin Whitespace /\ (k = 1 \/ t[k - 1] \in Whitespace) }

WordEnd(t, k) ==
    CHOOSE j \in k..Len(t) :
        /\ \A m \in k..j : t[m] \notin Whitespace
        /\ j = Len(t) \/ t[j + 1] \in Whitespace

SplitWords(t) ==
    LET starts == WordStarts(t)
        Nth(n) == CHOOSE k \in starts :
                      Cardinality({m \in starts : m < k}) = n - 1
    IN  [n \in 1..Cardinality(starts) |->
            SubSeq(t, Nth(n), WordEnd(t, Nth(n)))]

\* a line that lasts as long as one word
LineDurationOfOneWord(lineWords, msPerWord) == msPerWord

\* lineWords.length * msPerWord
LineDuration(lineWords, msPerWord) == Len(lineWords) * msPerWord

\* the loop of generateSRTFromText from word k (0-based) on
RECURSIVE EstimationLoop(_, _, _, _, _, _, _)
EstimationLoop(words, unit, msPerWord, group, k, subtitleIndex, currentTimeMs) ==
    IF k >= Len(words) THEN <<>>
    ELSE LET lineWords == Slice(words, k, k + group)
             lineDurationMs == LineDuration(lineWords, msPerWord)
             startTime == currentTimeMs
             endTime == currentTimeMs + lineDurationMs
         IN  <<[index |-> subtitleIndex,
                start |-> formatSrtTimeIn(unit, startTime),
                end |-> formatSrtTimeIn(unit, endTime),
                text |-> lineWords]>>
             \o EstimationLoop(words, unit, msPerWord, group, k + group,
                               subtitleIndex + 1, endTime)

\* generateSRTFromText(t, audioDurationMs, speed) with group words to the
\* cue, speed in hundredths: adjustedDuration = audioDurationMs / speed is
\* audioDurationMs * 100 * words.length units, msPerWord is
\* audioDurationMs * 100 units
generateSRTFromText(t, audioDurationMs, speed, group) ==
    LET words == SplitWords(t)
    IN  IF Len(words) = 0 THEN <<>>
        ELSE EstimationLoop(words, speed * Len(words), audioDurationMs * 100,
                            group, 0, 1, 0)

\* words.join(sep), before it pad
RECURSIVE JoinWords(_, _)
JoinWords(words, sep) ==
    IF Len(words) = 0 THEN <<>>
    ELSE IF Len(words) = 1 THEN words[1]
    ELSE words[1] \o sep \o JoinWords(Tail(words), sep)

\* a text of n words, the k-th being the number k
EstimationText(n, sep, pad) ==
    pad \o JoinWords([k \in 1..n |-> NumberToString(k)], sep)

\* the calls: 1..MaxWords words, separated by one space or by a newline and
\* two spaces after a leading space; total durations of 1 s, 12.345 s and
\* 20 s; speeds 0.5, 1.0, 1.25 and 2.0; 8 words to the cue as in part_003, or
\* 10 as in tts.ts
EstimationCalls ==
    { [name |-> "generateSRTFromText",
       n |-> n,
       text |-> EstimationText(n, lay[1], lay[2]),
       audioDurationMs |-> d,
       speed |-> sp,
       group |-> g] :
          n \in 1..MaxWords,
          lay \in { << <<" ">>, <<>> >>, << <<"\n", " ", " ">>, <<" ">> >> },
          d \in {1000, 12345, 20000},
          sp \in {50, 100, 125, 200},
          g \in {WORDS_PER_SUBTITLE_ESTIMATION, WORDS_PER_SUBTITLE} }

\* generateSRTFromText(text, audioDurationMs, speed) is called
EstimationInit ==
    /\ fn \in EstimationCalls
    /\ ret = NoReturn
    /\ PureRest

\* generateSRTFromText returns
EstimationReturn ==
    /\ fn.name = "generateSRTFromText"
    /\ ret = NoReturn
    /\ ret' = [returned |-> TRUE,
               value |-> generateSRTFromText(fn.text, fn.audioDurationMs,
                                             fn.speed, fn.group)]
    /\ UNCHANGED <<fn, pureRest>>

EstimationNext == EstimationReturn

SpecEstimation == EstimationInit /\ [][EstimationNext]_vars

-----------------------------------------------------------------------------
(* One adapter call, with a record of what the engine's two streams         *)
(* delivered to it                                                          *)

\* most 'data' events of the two streams together during one adapter call
MaxReceived == 4

\* the variables an adapter call does not touch
adapterRest == <<srtArgs, srtDoc, srtpc, request, response, sse, closed,
                 other, voicesCache, fetching, vlog, pureVars, uiVars>>

AdapterNext ==
    \/ \E v \in Voices :
           /\ StartRun(<<"a", "a">>, v, EngineDefaultRate, FALSE)
           /\ UNCHANGED <<received, adapterRest>>
    \/ \E chunk \in AudioData(i + 1) :
           /\ Len(received) < MaxReceived
           /\ OnAudioData(chunk)
           /\ received' = Append(received, [event |-> "audio", data |-> chunk])
           /\ UNCHANGED adapterRest
    \/ \E metadata \in MetadataEvents :
           /\ Len(received) < MaxReceived
           /\ OnMetadata(metadata)
           /\ received' = Append(received, [event |-> "metadata", parsed |-> TRUE,
                                            metadata |-> metadata])
           /\ UNCHANGED adapterRest
    \/ /\ Len(received) < MaxReceived
       /\ OnMalformedMetadata
       /\ received' = Append(received, [event |-> "metadata", parsed |-> FALSE,
                                        raw |-> Malformed])
       /\ UNCHANGED adapterRest
    \/ /\ OnAudioEnd
       /\ received' = Append(received, [event |-> "end"])
       /\ UNCHANGED adapterRest
    \/ \E metadata \in MetadataEvents :
           /\ Len(received) <= MaxReceived
           /\ OnLateMetadata(metadata)
           /\ received' = Append(received, [event |-> "metadata", parsed |-> TRUE,
                                            metadata |-> metadata])
           /\ UNCHANGED adapterRest
    \/ \E err \in Errors :
           /\ OnAudioError(err)
           /\ received' = Append(received, [event |-> "error", error |-> err])
           /\ UNCHANGED adapterRest

SpecAdapter == Init /\ [][AdapterNext]_vars

-----------------------------------------------------------------------------
(* Two runs at once.  The variables of the run hold the locals of the run   *)
(* whose handler the event loop is running, other those of the run that is  *)
(* waiting; every handler runs to completion, so the two runs interleave    *)
(* handler by handler, in any order.                                        *)

\* the locals of a run that was not called yet
IdleRun ==
    [text |-> <<>>, voice |-> None, rate |-> None, onProgress |-> FALSE,
     textChunks |-> <<>>, i |-> 0, audioBuffers |-> <<>>,
     allBoundaries |-> <<>>, timeOffset |-> 0, audioChunks |-> <<>>,
     boundaries |-> <<>>, pc |-> "idle", result |-> NoResult,
     thrown |-> None, log |-> <<>>]

\* the locals of the run whose handler is running
Locals ==
    [text |-> text, voice |-> voice, rate |-> rate, onProgress |-> onProgress,
     textChunks |-> textChunks, i |-> i, audioBuffers |-> audioBuffers,
     allBoundaries |-> allBoundaries, timeOffset |-> timeOffset,
     audioChunks |-> audioChunks, boundaries |-> boundaries, pc |-> pc,
     result |-> result, thrown |-> thrown, log |-> log]

\* two runs that push their audio on one list, as a module variable would be
SwitchSharedBuffers ==
    /\ other' = Locals
    /\ text' = other.text
    /\ voice' = other.voice
    /\ rate' = other.rate
    /\ onProgress' = other.onProgress
    /\ textChunks' = other.textChunks
    /\ i' = other.i
    /\ allBoundaries' = other.allBoundaries
    /\ timeOffset' = other.timeOffset
    /\ audioChunks' = other.audioChunks
    /\ boundaries' = other.boundaries
    /\ pc' = other.pc
    /\ result' = other.result
    /\ thrown' = other.thrown
    /\ log' = other.log
    /\ UNCHANGED <<audioBuffers, maxCharsPerChunk, remainingText, chunks, spc>>

\* the event loop turns from one run to the other: each run has its own
\* parameters and locals, and its adapter calls their own
Switch ==
    /\ other' = Locals
    /\ text' = other.text
    /\ voice' = other.voice
    /\ rate' = other.rate
    /\ onProgress' = other.onProgress
    /\ textChunks' = other.textChunks
    /\ i' = other.i
    /\ audioBuffers' = other.audioBuffers
    /\ allBoundaries' = other.allBoundaries
    /\ timeOffset' = other.timeOffset
    /\ audioChunks' = other.audioChunks
    /\ boundaries' = other.boundaries
    /\ pc' = other.pc
    /\ result' = other.result
    /\ thrown' = other.thrown
    /\ log' = other.log
    /\ UNCHANGED <<maxCharsPerChunk, remainingText, chunks, spc>>

\* the texts of the two runs: of one chunk and of two
TwoRunTexts ==
    { <<"a", "a">>,
      <<"a", "a", "a", ".", " ", "a", "a">> }

\* what the engine sends the two runs: one word at the start of a chunk's
\* audio, and one error
TwoRunMetadata == {Metadata("WordBoundary", 0, 10000, <<"w">>, "WordBoundary")}
TwoRunErrors == {"stream error"}

\* the variables two runs do not touch
twoRest == <<srtArgs, srtDoc, srtpc, received, request, response, sse, closed,
             voicesCache, fetching, vlog, pureVars, uiVars>>

TwoInit ==
    /\ text = <<>>
    /\ maxCharsPerChunk = MAX_CHARS_PER_CHUNK
    /\ remainingText = <<>>
    /\ chunks = <<>>
    /\ spc = "idle"
    /\ Idle
    /\ SrtIdle
    /\ received = <<>>
    /\ RouteIdle
    /\ other = IdleRun
    /\ VoicesIdle
    /\ PureIdle
    /\ UiIdle

TwoNext ==
    \/ \E t \in TwoRunTexts :
           StartRun(t, "en-US-AriaNeural", EngineDefaultRate, TRUE)
           /\ UNCHANGED <<other, twoRest>>
    \/ \E chunk \in AudioData(i + 1) :
           OnAudioData(chunk) /\ UNCHANGED <<other, twoRest>>
    \/ \E metadata \in TwoRunMetadata :
           OnMetadata(metadata) /\ UNCHANGED <<other, twoRest>>
    \/ OnMalformedMetadata /\ UNCHANGED <<other, twoRest>>
    \/ OnAudioEnd /\ UNCHANGED <<other, twoRest>>
    \/ \E err \in TwoRunErrors :
           OnAudioError(err) /\ UNCHANGED <<other, twoRest>>
    \/ Switch /\ UNCHANGED twoRest

SpecTwoRuns == TwoInit /\ [][TwoNext]_vars

-----------------------------------------------------------------------------
(* getVoices and its cache.  Calls come from the voices route (twice per    *)
(* request) and from the preview route; a call that finds the cache empty   *)
(* awaits the engine, and other calls can start and finish meanwhile.       *)

\* most calls of getVoices
MaxVoiceCalls == 3

\* voices as the engine lists them
Aria ==
    [Name |-> "Microsoft Server Speech Text to Speech Voice (en-US, AriaNeural)",
     ShortName |-> "en-US-AriaNeural",
     Locale |-> <<"e", "n", "-", "U", "S">>,
     Gender |-> "Female",
     FriendlyName |-> "Microsoft Aria Online (Natural) - English (United States)"]
Ardi ==
    [Name |-> "Microsoft Server Speech Text to Speech Voice (id-ID, ArdiNeural)",
     ShortName |-> "id-ID-ArdiNeural",
     Locale |-> <<"i", "d", "-", "I", "D">>,
     Gender |-> "Male",
     FriendlyName |-> "Microsoft Ardi Online (Natural) - Indonesian (Indonesia)"]

\* the lists tts.getVoices() can resolve with: the engine's catalog changes
\* over time
Catalogs == { <<Aria>>, <<Aria, Ardi>> }

\* the errors tts.getVoices() can reject with
FetchErrors == {"fetch failed"}

\* s.split(sep)[0]
SplitFirst(s, sep) ==
    LET at == {n \in 1..Len(s) : s[n] = sep}
    IN  IF at = {} THEN s
        ELSE SubSeq(s, 1, (CHOOSE n \in at : \A j \in at : n <= j) - 1)

\* rawVoices.map(...)
ToVoices(rawVoices) ==
    [k \in 1..Len(rawVoices) |->
        [name |-> rawVoices[k].Name,
         shortName |-> rawVoices[k].ShortName,
         locale |-> rawVoices[k].Locale,
         language |-> SplitFirst(rawVoices[k].Locale, "-"),
         gender |-> rawVoices[k].Gender,
         friendlyName |-> rawVoices[k].FriendlyName]]

\* the number of getVoices calls so far
VoiceCalls == Len(SelectSeq(vlog, LAMBDA e : e.type = "call"))

\* getVoices() is called: it returns the cache, or runs to its await
GetVoices ==
    /\ VoiceCalls < MaxVoiceCalls
    /\ LET id == VoiceCalls + 1
       IN  IF ~voicesCache.isNull
           THEN /\ vlog' = vlog \o <<[type |-> "call", id |-> id],
                                      [type |-> "return", id |-> id,
                                       voices |-> voicesCache.voices]>>
                /\ UNCHANGED <<voicesCache, fetching>>
           ELSE /\ vlog' = vlog \o <<[type |-> "call", id |-> id],
                                      [type |-> "fetch", id |-> id]>>
                /\ fetching' = fetching \cup {id}
                /\ UNCHANGED voicesCache

\* tts.getVoices() resolves: the call sets the cache and returns it
FetchResolve(id, rawVoices) ==
    /\ id \in fetching
    /\ voicesCache' = [isNull |-> FALSE, voices |-> ToVoices(rawVoices)]
    /\ fetching' = fetching \ {id}
    /\ vlog' = vlog \o <<[type |-> "resolve", id |-> id,
                          rawVoices |-> rawVoices],
                         [type |-> "return", id |-> id,
                          voices |-> voicesCache'.voices]>>

\* tts.getVoices() rejects: the call throws
FetchReject(id, err) ==
    /\ id \in fetching
    /\ fetching' = fetching \ {id}
    /\ vlog' = vlog \o <<[type |-> "reject", id |-> id, error |-> err],
                         [type |-> "throw", id |-> id, error |-> err]>>
    /\ UNCHANGED voicesCache

\* the variables getVoices does not touch
voicesRest == <<splitVars, runVars, srtArgs, srtDoc, srtpc, received, request,
                response, sse, closed, other, pureVars, uiVars>>

VoicesNext ==
    \/ GetVoices /\ UNCHANGED voicesRest
    \/ \E id \in 1..MaxVoiceCalls, rawVoices \in Catalogs :
           FetchResolve(id, rawVoices) /\ UNCHANGED voicesRest
    \/ \E id \in 1..MaxVoiceCalls, err \in FetchErrors :
           FetchReject(id, err) /\ UNCHANGED voicesRest

SpecVoices == Init /\ [][VoicesNext]_vars

-----------------------------------------------------------------------------
(* Runs over many chunks, with an engine that sends nothing: the audio      *)
(* stream of every chunk ends or fails at once                              *)

\* most chunks of a run: a text the routes accept has at most 50000
\* characters and every iteration of the chunker takes more than 1500 of
\* them, which makes 34 chunks at most
MaxTotal == 34

ProgressNext ==
    \/ \E n \in 1..MaxTotal, v \in Voices :
           /\ StartRun(Fill(n * MAX_CHARS_PER_CHUNK), v, EngineDefaultRate,
                       TRUE)
           /\ UNCHANGED extVars
    \/ OnAudioEnd /\ UNCHANGED extVars
    \/ \E err \in Errors : OnAudioError(err) /\ UNCHANGED extVars

SpecProgress == Init /\ [][ProgressNext]_vars

-----------------------------------------------------------------------------
(* The audio-only variant of part_001: synthesizeSpeechWithProgress over    *)
(* synthesizeChunk, which listens to the audio stream alone and resolves    *)
(* with a Buffer.  Its chunker is the one above, line for line.             *)

\* synthesizeSpeechWithProgress(t, v, r, onProgress) is called and runs up
\* to its first await, or to its return when there is no chunk; with one
\* chunk it reports the progress and then calls synthesizeChunk
StartAudioRun(t, v, r, cb) ==
    /\ pc = "idle"
    /\ text' = t
    /\ voice' = v
    /\ rate' = r
    /\ onProgress' = cb
    /\ textChunks' = splitTextIntoChunks(t, MAX_CHARS_PER_CHUNK)
    /\ IF Len(textChunks') = 1
       THEN /\ pc' = "awaiting"
            /\ result' = NoResult
            /\ log' = (IF cb
                       THEN <<[type |-> "progress", current |-> 1,
                               total |-> 1, percent |-> 100]>>
                       ELSE <<>>)
                      \o <<CallEntry(1, textChunks'[1], v)>>
       ELSE IF Len(textChunks') = 0
       THEN /\ pc' = "done"
            /\ result' = [audio |-> <<>>]
            /\ log' = <<[type |-> "return"]>>
       ELSE /\ pc' = "awaiting"
            /\ result' = NoResult
            /\ log' = <<CallEntry(1, textChunks'[1], v)>>
    /\ UNCHANGED <<maxCharsPerChunk, remainingText, chunks, spc, i,
                   audioBuffers, allBoundaries, timeOffset, audioChunks,
                   boundaries, thrown>>

\* audioStream.on('end') of synthesizeChunk: its promise resolves with the
\* concatenated audio; the one-chunk run returns it, the loop goes on from
\* its await to the next await or to the return
OnAudioEndOfChunk ==
    /\ pc = "awaiting"
    /\ LET tot == Len(textChunks)
           audio == Concat(audioChunks)
           settled == <<[type |-> "resolve", chunk |-> i + 1,
                         audio |-> audio]>>
           progress == IF onProgress THEN <<ProgressEntry(i + 1, tot)>>
                       ELSE <<>>
       IN  IF tot = 1
           THEN /\ log' = log \o settled \o <<[type |-> "return"]>>
                /\ pc' = "done"
                /\ result' = [audio |-> audio]
                /\ UNCHANGED <<i, audioBuffers>>
           ELSE /\ audioBuffers' = Append(audioBuffers, audio)
                /\ i' = i + 1
                /\ IF i + 1 < tot
                   THEN /\ log' = log \o settled \o progress
                                   \o <<CallEntry(i + 2, textChunks[i + 2],
                                                  voice)>>
                        /\ UNCHANGED <<pc, result>>
                   ELSE /\ log' = log \o settled \o progress
                                   \o <<[type |-> "return"]>>
                        /\ pc' = "done"
                        /\ result' = [audio |-> Concat(audioBuffers')]
    /\ audioChunks' = <<>>
    /\ UNCHANGED <<text, maxCharsPerChunk, remainingText, chunks, spc, voice,
                   rate, onProgress, textChunks, allBoundaries, timeOffset,
                   boundaries, thrown>>

\* one run of the audio-only variant; audioStream.on('data') and
\* audioStream.on('error') do in synthesizeChunk what they do in
\* synthesizeChunkWithMetadata
AudioNext ==
    \/ \E t \in RunTexts, v \in Voices, r \in Rates, cb \in BOOLEAN :
           StartAudioRun(t, v, r, cb) /\ UNCHANGED extVars
    \/ \E chunk \in AudioData(i + 1) :
           OnAudioData(chunk) /\ UNCHANGED extVars
    \/ OnAudioEndOfChunk /\ UNCHANGED extVars
    \/ \E err \in Errors : OnAudioError(err) /\ UNCHANGED extVars

SpecAudioOnly == Init /\ [][AudioNext]_vars

-----------------------------------------------------------------------------
(* The AudioOutput component: one call of handleGenerate.  The response     *)
(* body is the sequence of the events it carries; how the bytes of an event *)
(* are spread over the reads of the reader is left out.                     *)

\* the streams have a 'start' for up to MaxUiChunks chunks
MaxUiChunks == 2

\* atob and the byte loop after it: the bytes a base64 string stands for
Base64Index(c) == CHOOSE k \in 0..63 : Base64Chars[k + 1] = c

RECURSIVE atob(_)
atob(str) ==
    IF Len(str) = 0 THEN <<>>
    ELSE LET n == ((Base64Index(str[1]) * 64 + Base64Index(str[2])) * 64
                     + (IF str[3] = "=" THEN 0 ELSE Base64Index(str[3]))) * 64
                  + (IF str[4] = "=" THEN 0 ELSE Base64Index(str[4]))
             bytes == <<n \div (256 * 256), (n \div 256) % 256, n % 256>>
         IN  SubSeq(bytes, 1, IF str[3] = "=" THEN 1
                              ELSE IF str[4] = "=" THEN 2 ELSE 3)
             \o atob(SubSeq(str, 5, Len(str)))

\* the props text and voice of the component
UiTexts == { <<>>, <<" ", " ">>, <<"a", "a">> }
UiVoices == {"", "en-US-AriaNeural"}

\* the results a run behind the stream can return: no audio and no subtitle
\* (no chunk), or the audio of a chunk with a subtitle of one cue
UiResults ==
    { [audio |-> <<>>, srt |-> <<>>] }
    \cup { [audio |-> a, srt |-> generateSRT(PlainWords(1), 0)] :
               a \in AudioData(1) }

\* the bodies the streaming route sends with status 200: 'start', the
\* 'progress' of the chunks synthesized, and then either 'complete', after
\* the progress of all chunks, or 'error', before that
UiStreams ==
    { <<StartEvent(n)>> \o [j \in 1..n |-> ProgressEntry(j, n)]
          \o <<CompleteEvent(res)>> :
              n \in 0..MaxUiChunks, res \in UiResults }
    \cup
    { <<StartEvent(n)>> \o [j \in 1..k |-> ProgressEntry(j, n)]
          \o <<ErrorEvent>> :
              n \in 1..MaxUiChunks, k \in 0..(MaxUiChunks - 1) }

\* the Responses the route sends with another status
UiRejections ==
    { BadRequest("Text and voice are required"),
      BadRequest("Text too long. Maximum 50000 characters."),
      [status |-> 400] }

\* the errors fetch and reader.read() reject with
UiErrors == {"Failed to fetch", "network error"}

\* handleGenerate is called and runs up to the await of fetch, or to its
\* return when a prop is missing
HandleGenerate(t, v) ==
    /\ hpc = "idle"
    /\ IF Len(Trim(t)) = 0
       THEN /\ errorMessage' = "Please enter some text first"
            /\ status' = "error"
            /\ hpc' = "returned"
            /\ UNCHANGED <<progressState, audioUrl, srtContent>>
       ELSE IF v = ""
       THEN /\ errorMessage' = "Please select a voice"
            /\ status' = "error"
            /\ hpc' = "returned"
            /\ UNCHANGED <<progressState, audioUrl, srtContent>>
       ELSE /\ status' = "generating"
            /\ errorMessage' = ""
            /\ progressState' = [current |-> 0, total |-> 0, percent |-> 0]
            /\ srtContent' = <<>>
            /\ audioUrl' = NoUrl
            /\ hpc' = "fetching"
    /\ UNCHANGED stream

\* the catch of handleGenerate: the generation has failed
Failed(message) ==
    /\ errorMessage' = message
    /\ status' = "error"
    /\ hpc' = "returned"
    /\ UNCHANGED <<progressState, audioUrl, srtContent, stream>>

\* fetch rejects
FetchFails(err) ==
    /\ hpc = "fetching"
    /\ Failed(err)

\* fetch resolves with a Response that is not ok: its error, or the default
\* message when it has none, is thrown
ResponseNotOk(res) ==
    /\ hpc = "fetching"
    /\ Failed(IF "error" \in DOMAIN res THEN res.error
              ELSE "Failed to generate speech")

\* fetch resolves with a Response that is ok: the loop starts to read
ResponseOk(events) ==
    /\ hpc = "fetching"
    /\ stream' = [events |-> events, read |-> 0]
    /\ hpc' = "reading"
    /\ UNCHANGED <<status, errorMessage, progressState, audioUrl, srtContent>>

\* what the loop does with one event: the Error thrown for an 'error' event
\* is caught by the try around JSON.parse and logged, and the loop goes on
OnEvent(data) ==
    /\ CASE data.type = "start" ->
              /\ progressState' = [current |-> 0,
                                   total |-> data.totalChunks,
                                   percent |-> 0]
              /\ UNCHANGED <<status, audioUrl, srtContent>>
         [] data.type = "progress" ->
              /\ progressState' = [current |-> data.current,
                                   total |-> data.total,
                                   percent |-> data.percent]
              /\ UNCHANGED <<status, audioUrl, srtContent>>
         [] data.type = "complete" ->
              /\ audioUrl' = [isNull |-> FALSE, blob |-> atob(data.audio)]
              /\ srtContent' = (IF Len(data.srt) > 0 THEN data.srt
                                ELSE srtContent)
              /\ status' = "ready"
              /\ UNCHANGED progressState
         [] data.type = "error" ->
              UNCHANGED <<status, progressState, audioUrl, srtContent>>
    /\ stream' = [stream EXCEPT !.read = stream.read + 1]
    /\ UNCHANGED <<errorMessage, hpc>>

\* reader.read() resolves with the next event
ReadEvent ==
    /\ hpc = "reading"
    /\ stream.read < Len(stream.events)
    /\ OnEvent(stream.events[stream.read + 1])

\* reader.read() resolves with done: the loop and handleGenerate end
ReadDone ==
    /\ hpc = "reading"
    /\ stream.read = Len(stream.events)
    /\ hpc' = "returned"
    /\ UNCHANGED <<status, errorMessage, progressState, audioUrl, srtContent,
                   stream>>

\* reader.read() rejects
ReadFails(err) ==
    /\ hpc = "reading"
    /\ Failed(err)

uiRest == <<splitVars, runVars, srtVars, received, routeVars, other,
            voicesVars, pureVars>>

UiNext ==
    \/ \E t \in UiTexts, v \in UiVoices :
           HandleGenerate(t, v) /\ UNCHANGED uiRest
    \/ \E err \in UiErrors : FetchFails(err) /\ UNCHANGED uiRest
    \/ \E res \in UiRejections : ResponseNotOk(res) /\ UNCHANGED uiRest
    \/ \E events \in UiStreams : ResponseOk(events) /\ UNCHANGED uiRest
    \/ ReadEvent /\ UNCHANGED uiRest
    \/ ReadDone /\ UNCHANGED uiRest
    \/ \E err \in UiErrors : ReadFails(err) /\ UNCHANGED uiRest

SpecUi == Init /\ [][UiNext]_vars

-----------------------------------------------------------------------------
(* What the properties below read off a state *)

\* the characters of s that are not whitespace, in order
NonWhitespace(s) == SelectSeq(s, LAMBDA c : c \notin Whitespace)

\* the entries of the log of one type, in order
Entries(type) == SelectSeq(log, LAMBDA e : e.type = type)

\* the number of entries of the first p log entries that have one of the types
CountIn(p, types) == Cardinality({q \in 1..p : log[q].type \in types})

\* the sum of f[1..n]
RECURSIVE SumTo(_, _)
SumTo(f, n) == IF n = 0 THEN 0 ELSE f[n] + SumTo(f, n - 1)

-----------------------------------------------------------------------------
(* The chunker *)

\* C1: every chunk splitTextIntoChunks returns is at most maxCharsPerChunk
\* characters long, whichever split point was chosen.
C1_ChunkWithinMax ==
    \A k \in 1..Len(chunks) : Len(chunks[k]) <= maxCharsPerChunk

\* C2: the non-whitespace characters of the chunks, in order, are those of the
\* input (none lost, duplicated or reordered: at every iteration the chunks
\* cut so far and the remaining text carry them all), and every chunk is
\* non-empty and neither starts nor ends with whitespace.
C2_NoCharacterLost ==
    /\ NonWhitespace(Concat(chunks)
                     \o (IF spc = "done" THEN <<>> ELSE remainingText))
         = NonWhitespace(text)
    /\ \A k \in 1..Len(chunks) :
          /\ Len(chunks[k]) > 0
          /\ chunks[k][1] \notin Whitespace
          /\ chunks[k][Len(chunks[k])] \notin Whitespace

\* a split into three chunks that dropped whitespace between them
C2_Witness ==
    /\ spc = "done"
    /\ Len(chunks) = 3
    /\ Len(Concat(chunks)) < Len(text)

\* C15, as stated: a text no longer than maxCharsPerChunk comes back as
\* exactly one chunk, the trimmed text.
C15_ShortTextOneChunk ==
    (spc = "done" /\ Len(text) <= maxCharsPerChunk) => chunks = <<Trim(text)>>

\* C15, amended: a text no longer than maxCharsPerChunk comes back as exactly
\* one chunk, the trimmed text, when it has a character that is not
\* whitespace, and as no chunk at all when it has none.
C15_ShortTextOneChunkOrNone ==
    (spc = "done" /\ Len(text) <= maxCharsPerChunk) =>
        chunks = IF Len(Trim(text)) = 0 THEN <<>> ELSE <<Trim(text)>>

\* a text of blanks that fits came back as no chunk
C15_Witness ==
    /\ spc = "done"
    /\ Len(text) \in 1..maxCharsPerChunk
    /\ Len(Trim(text)) = 0
    /\ chunks = <<>>

\* C16: splitTextIntoChunks terminates on every text, the empty one
\* included, and every maxCharsPerChunk >= 1: an iteration either ends the
\* loop or leaves a remaining text strictly shorter than it found, so that
\* the loop ends after at most as many iterations as the text has
\* characters.
C16_SplitTerminates ==
    [][spc = "loop" =>
          \/ spc' = "done"
          \/ Len(remainingText') < Len(remainingText)]_vars

\* a text of MaxLen characters was cut into one-character chunks
C16_Witness ==
    /\ spc = "done"
    /\ maxCharsPerChunk = 1
    /\ Len(text) = MaxLen
    /\ Len(chunks) = MaxLen

\* the greatest element of a set of integers, -1 for the empty set
Last(S) == IF S = {} THEN -1 ELSE CHOOSE p \in S : \A q \in S : q <= p

\* the indices (0-based) of the given characters among the first
\* position + 1 characters of s
IndicesOf(s, chars, position) ==
    {p \in 0..Min(position, Len(s) - 1) : s[p + 1] \in chars}

\* the index just after the last '.', '!' or '?' that stands at an index
\* <= position of s and has a space or a newline after it; -1 without one
AfterLastSentence(s, position) ==
    LET ends == {p \in IndicesOf(s, {".", "!", "?"}, position) :
                     p + 2 <= Len(s) /\ s[p + 2] \in {" ", "\n"}}
    IN  IF ends = {} THEN -1 ELSE Last(ends) + 1

\* the split point the four rules give
SplitPoint(s, maxChars) ==
    LET sentence == AfterLastSentence(s, maxChars)
        newline == Last(IndicesOf(s, {"\n"}, maxChars))
        space == Last(IndicesOf(s, {" "}, maxChars))
    IN  IF 2 * sentence > maxChars THEN sentence
        ELSE IF 2 * newline > maxChars THEN newline
        ELSE IF 2 * space > maxChars THEN space
        ELSE maxChars

\* C24: while the remaining text is longer than maxCharsPerChunk, it is cut
\* just after the last sentence-ending mark ('.', '!' or '?' before a space
\* or a newline) found up to position maxCharsPerChunk if that point lies
\* beyond maxCharsPerChunk * 0.5; else at the last newline up to that
\* position if beyond the threshold; else at the last space if beyond the
\* threshold; else at exactly maxCharsPerChunk.  A newline or a space after
\* a sentence end that qualifies does not move the cut.  A text without
\* whitespace of length L gives ceil(L / maxCharsPerChunk) chunks, all of
\* maxCharsPerChunk characters but possibly the last.
C24_SplitPriority ==
    /\ [][(spc = "loop" /\ Len(remainingText) > maxCharsPerChunk) =>
             LET cut == SplitPoint(remainingText, maxCharsPerChunk)
             IN  /\ chunks' = Append(chunks,
                                     Trim(SubSeq(remainingText, 1, cut)))
                 /\ remainingText'
                        = Trim(SubSeq(remainingText, cut + 1,
                                      Len(remainingText)))]_vars
    /\ []((spc = "done" /\ \A k \in 1..Len(text) : text[k] \notin Whitespace)
             => /\ Len(chunks) = (Len(text) + maxCharsPerChunk - 1)
                                     \div maxCharsPerChunk
                /\ \A k \in 1..Len(chunks) :
                       Len(chunks[k])
                           = (IF k < Len(chunks) THEN maxCharsPerChunk
                              ELSE Len(text) - (k - 1) * maxCharsPerChunk))

\* 'aa. a a' was cut after its sentence and not at the space after the next
\* word
C24_Witness ==
    /\ spc = "done"
    /\ text = <<"a", "a", ".", " ", "a", " ", "a">>
    /\ maxCharsPerChunk = LongChunkSize
    /\ chunks = << <<"a", "a", ".">>, <<"a", " ", "a">> >>

-----------------------------------------------------------------------------
(* The run *)

\* the chunk whose adapter call was rejected, when one was
FailedChunk == Entries("reject")[1].chunk

\* C3: once the adapter call for chunk k has failed, the run has thrown that
\* failure and returned nothing: chunks 1..k were called once each, in order,
\* and none after k; every progress event has current < k; there is no
\* SynthesisResult.
C3_FailureAbortsRun ==
    Len(Entries("reject")) > 0 =>
        /\ Len(Entries("reject")) = 1
        /\ result = NoResult
        /\ Len(Entries("return")) = 0
        /\ thrown = Entries("reject")[1].error
        /\ log[Len(log)] = [type |-> "throw", error |-> thrown]
        /\ Len(Entries("call")) = FailedChunk
        /\ \A k \in 1..FailedChunk : Entries("call")[k].chunk = k
        /\ \A p \in 1..Len(Entries("progress")) :
              Entries("progress")[p].current < FailedChunk

\* chunk 2 of 3 failed after chunk 1 had delivered audio
C3_Witness ==
    /\ pc = "failed"
    /\ Len(textChunks) = 3
    /\ FailedChunk = 2
    /\ Len(audioBuffers) = 1
    /\ Len(audioBuffers[1]) > 0

\* C4: with a progress callback, progress events come with current = 1, 2,
\* ... in that order, event k only after the adapter call for chunk k has
\* resolved; a run over n chunks that returned has delivered exactly n of
\* them, and the return is the last thing it did.
C4_ProgressOrder ==
    onProgress =>
        /\ \A k \in 1..Len(Entries("progress")) :
              Entries("progress")[k].current = k
        /\ \A p \in 1..Len(log) :
              log[p].type = "progress" =>
                  \E q \in 1..(p - 1) :
                      /\ log[q].type = "resolve"
                      /\ log[q].chunk = log[p].current
        /\ pc = "done" =>
              /\ Len(Entries("progress")) = Len(textChunks)
              /\ log[Len(log)].type = "return"
              /\ Len(Entries("return")) = 1

\* a run over three chunks with a callback has returned
C4_Witness ==
    /\ pc = "done"
    /\ onProgress
    /\ Len(textChunks) = 3
    /\ Len(Entries("progress")) = 3

\* C5: every engine call of the run carries the chunk's text, the voice and
\* the rate the run was given.
C5_RateReachesEngine ==
    \A k \in 1..Len(Entries("call")) :
        LET call == Entries("call")[k]
        IN  /\ call.text = textChunks[call.chunk]
            /\ call.voice = voice
            /\ call.rate = rate

\* C6: adapter calls are sequential and in chunk order: the k-th call is for
\* chunk k, it starts only once the calls for chunks 1..k-1 have resolved, at
\* no point of the run is more than one call unsettled, and a run that
\* returned has called every chunk exactly once, with that chunk's text.
C6_SequentialCalls ==
    /\ \A k \in 1..Len(Entries("call")) : Entries("call")[k].chunk = k
    /\ \A p \in 1..Len(log) :
          /\ log[p].type = "call" =>
                CountIn(p - 1, {"resolve"}) = log[p].chunk - 1
          /\ CountIn(p, {"call"}) - CountIn(p, {"resolve", "reject"})
                \in {0, 1}
    /\ pc = "done" =>
          /\ Len(Entries("call")) = Len(textChunks)
          /\ \A k \in 1..Len(textChunks) :
                Entries("call")[k].text = textChunks[k]

\* a run over three chunks returned after three calls, each resolved before
\* the next
C6_Witness ==
    /\ pc = "done"
    /\ Len(textChunks) = 3
    /\ Len(Entries("call")) = 3
    /\ Len(Entries("resolve")) = 3

\* the audio the adapter resolved chunk k with
ChunkAudio(k) == Entries("resolve")[k].audio

\* the number of bytes of the chunks before chunk k
BytesBefore(k) == SumTo([j \in 1..Len(Entries("resolve")) |-> Len(ChunkAudio(j))],
                        k - 1)

\* C7: the audio a run returns is the per-chunk audio in chunk order, byte for
\* byte: it is as long as the chunks' audio together, and byte n of chunk k is
\* its byte number (bytes of chunks 1..k-1) + n.
C7_AudioIsConcatenation ==
    pc = "done" =>
        /\ Len(Entries("resolve")) = Len(textChunks)
        /\ Len(result.audio) = BytesBefore(Len(textChunks) + 1)
        /\ \A k \in 1..Len(textChunks) :
              \A n \in 1..Len(ChunkAudio(k)) :
                  result.audio[BytesBefore(k) + n] = ChunkAudio(k)[n]

\* three chunks, each with audio, were stitched
C7_Witness ==
    /\ pc = "done"
    /\ Len(textChunks) = 3
    /\ \A k \in 1..3 : Len(ChunkAudio(k)) > 0

\* the boundaries the adapter resolved chunk k with, less those generateSRT
\* skips
ChunkWords(k) ==
    SelectSeq(Entries("resolve")[k].boundaries,
              LAMBDA b : /\ Len(Trim(b.Text)) > 0
                         /\ b.BoundaryType # "PunctuationBoundary")

\* ticks / 10000 ms and bytes / 6000 * 1000 ms, in units of 1 / MsScale ms
TicksAsMs(ticks) == ((ticks \div TickScale) * MsScale) \div 10000
BytesAsMs(bytes) == (bytes * MsScale) \div 6

\* where the words of chunks k, k + 1, ... start in the assembled audio: the
\* offset in their chunk plus the estimated duration of the chunks before
RECURSIVE ExpectedStarts(_)
ExpectedStarts(k) ==
    IF k > Len(Entries("resolve")) THEN <<>>
    ELSE [n \in 1..Len(ChunkWords(k)) |->
             TicksAsMs(ChunkWords(k)[n].Offset) + BytesAsMs(BytesBefore(k))]
         \o ExpectedStarts(k + 1)

\* the number of words of the cues before cue c
WordsBefore(srt, c) == SumTo([j \in 1..Len(srt) |-> Len(srt[j].text)], c - 1)

\* C8: the running offset is the estimated duration of the chunks resolved so
\* far, and in the subtitle a run returns every cue starts where its first
\* word starts: at the word's offset in its chunk plus the estimated duration
\* of the chunks before that chunk, the shift being applied once.
C8_OffsetsShiftedOnce ==
    /\ timeOffset = BytesAsMs(BytesBefore(Len(Entries("resolve")) + 1))
    /\ pc = "done" =>
          /\ WordsBefore(result.srt, Len(result.srt) + 1)
                = Len(ExpectedStarts(1))
          /\ \A c \in 1..Len(result.srt) :
                result.srt[c].start =
                    formatSrtTime(ExpectedStarts(1)[WordsBefore(result.srt, c) + 1])

\* a word of chunk 1 and a word of chunk 3 each open a cue, and chunks 1 and
\* 2 brought audio
C8_Witness ==
    /\ pc = "done"
    /\ Len(textChunks) = 3
    /\ Len(ChunkAudio(1)) > 0
    /\ Len(ChunkAudio(2)) > 0
    /\ Len(ChunkWords(1)) = 1
    /\ Len(ChunkWords(3)) = 1
    /\ Len(result.srt) = 2

\* the number a string of decimal digits writes
RECURSIVE DigitsValue(_)
DigitsValue(ds) ==
    IF Len(ds) = 0 THEN 0
    ELSE 10 * DigitsValue(SubSeq(ds, 1, Len(ds) - 1))
         + (CHOOSE d \in 0..9 : DigitChars[d + 1] = ds[Len(ds)])

\* the milliseconds an SRT timestamp H..H:MM:SS,mmm writes
SrtTimeMs(ts) ==
    LET h == Len(ts) - 10
    IN  DigitsValue(SubSeq(ts, 1, h)) * 3600000
        + DigitsValue(SubSeq(ts, h + 2, h + 3)) * 60000
        + DigitsValue(SubSeq(ts, h + 5, h + 6)) * 1000
        + DigitsValue(SubSeq(ts, h + 8, h + 10))

\* C9: in the subtitle of a run (every chunk's events being time-ordered, with
\* offsets and durations >= 0), no cue ends before it starts and no cue
\* starts before the cue before it, whatever audio the adapter returned.
C9_CuesMonotonic ==
    pc = "done" =>
        \A c \in 1..Len(result.srt) :
            /\ SrtTimeMs(result.srt[c].start) <= SrtTimeMs(result.srt[c].end)
            /\ c < Len(result.srt) =>
                  SrtTimeMs(result.srt[c].start)
                      <= SrtTimeMs(result.srt[c + 1].start)

\* C10: a run over a text with at least one word that returns, returns a
\* subtitle document that is not empty.
C10_SubtitleNeverEmpty ==
    (pc = "done" /\ Len(NonWhitespace(text)) > 0) => Len(result.srt) > 0

EntriesOf(run, type) == SelectSeq(run.log, LAMBDA e : e.type = type)

\* the audio the adapter resolved the chunks of a run with, chunk by chunk
OwnAudio(run) ==
    [k \in 1..Len(EntriesOf(run, "resolve")) |->
        EntriesOf(run, "resolve")[k].audio]

\* the boundaries the adapter resolved chunks k, k + 1, ... of a run with,
\* each shifted by the estimated duration of the run's own audio before it
RECURSIVE OwnBoundaries(_, _)
OwnBoundaries(run, k) ==
    IF k > Len(EntriesOf(run, "resolve")) THEN <<>>
    ELSE LET bs == EntriesOf(run, "resolve")[k].boundaries
             before == EstimatedDurationMs(Concat(SubSeq(OwnAudio(run), 1, k - 1)))
         IN  [n \in 1..Len(bs) |-> AdjustedBoundary(bs[n], before)]
             \o OwnBoundaries(run, k + 1)

\* what a run holds, reports and returns is what its own text and the
\* adapter's answers to its own calls make it: what it would be had the run
\* executed alone
AsAlone(run) ==
    /\ run.pc # "idle" =>
          run.textChunks = splitTextIntoChunks(run.text, MAX_CHARS_PER_CHUNK)
    /\ \A k \in 1..Len(EntriesOf(run, "call")) :
          /\ EntriesOf(run, "call")[k].chunk = k
          /\ EntriesOf(run, "call")[k].text = run.textChunks[k]
    /\ run.audioBuffers = OwnAudio(run)
    /\ run.allBoundaries = OwnBoundaries(run, 1)
    /\ run.timeOffset = EstimatedDurationMs(Concat(OwnAudio(run)))
    /\ EntriesOf(run, "progress")
          = [k \in 1..Len(EntriesOf(run, "resolve")) |->
                ProgressEntry(k, Len(run.textChunks))]
    /\ run.pc = "done" =>
          /\ Len(EntriesOf(run, "resolve")) = Len(run.textChunks)
          /\ run.result = Finish(OwnAudio(run), OwnBoundaries(run, 1))
    /\ run.pc # "done" => run.result = NoResult

\* C19: of two runs whose handlers interleave in any order, each holds,
\* reports and returns what its own text and the adapter's answers to its
\* own chunks make it, as if it had executed alone: the audio list, the
\* boundary list and the running offset of one run never hold anything of
\* the other.
C19_RunsIsolated == AsAlone(Locals) /\ AsAlone(other)

\* both runs are between their first and their second chunk, each with
\* audio and a boundary of its own
C19_Witness ==
    /\ pc = "awaiting"
    /\ i = 1
    /\ Len(audioBuffers[1]) > 0
    /\ Len(allBoundaries) = 1
    /\ other.pc = "awaiting"
    /\ other.i = 1
    /\ Len(other.audioBuffers[1]) > 0
    /\ Len(other.allBoundaries) = 1

-----------------------------------------------------------------------------
(* The adapter *)

\* the events of one kind the streams delivered, in order
Received(event) == SelectSeq(received, LAMBDA e : e.event = event)

\* the payloads among evs that parsed to a WordBoundary event, in arrival
\* order
WordBoundariesIn(evs) ==
    LET wb == SelectSeq(evs,
                        LAMBDA e : /\ e.event = "metadata"
                                   /\ e.parsed
                                   /\ e.metadata.Type = "WordBoundary")
    IN  [k \in 1..Len(wb) |-> wb[k].metadata]

\* what the streams delivered before the audio stream ended
BeforeEnd ==
    LET ends == {p \in 1..Len(received) : received[p].event = "end"}
    IN  IF ends = {} THEN received
        ELSE SubSeq(received, 1, (CHOOSE p \in ends : TRUE) - 1)

\* the WordBoundary events received before the audio stream ended
ReceivedWordBoundaries == WordBoundariesIn(BeforeEnd)

\* the audio the audio stream delivered, in arrival order
ReceivedAudio ==
    Concat([k \in 1..Len(Received("audio")) |-> Received("audio")[k].data])

\* C18: a payload that does not parse changes nothing: until the audio
\* stream ends the adapter holds every WordBoundary event that parsed, in
\* arrival order, and all the audio; the call fails only on an 'error' of
\* the audio stream; and when the audio stream ends the call resolves with
\* all the audio and all those events, wherever the payloads that did not
\* parse came among them.
C18_MalformedDiscarded ==
    /\ pc = "awaiting" =>
          /\ boundaries = ReceivedWordBoundaries
          /\ Concat(audioChunks) = ReceivedAudio
    /\ Len(Entries("reject")) = Len(Received("error"))
    /\ pc = "failed" <=> Len(Received("error")) > 0
    /\ Len(Received("end")) > 0 =>
          /\ pc = "done"
          /\ Len(Entries("resolve")) = 1
          /\ Entries("resolve")[1].audio = ReceivedAudio
          /\ Entries("resolve")[1].boundaries = ReceivedWordBoundaries

\* the call resolved after audio and a payload that did not parse between
\* two WordBoundary events
C18_Witness ==
    /\ pc = "done"
    /\ Len(received) = 5
    /\ received[1].event = "metadata" /\ received[1].parsed
    /\ received[2].event = "metadata" /\ ~received[2].parsed
    /\ received[3].event = "metadata" /\ received[3].parsed
    /\ received[4].event = "audio"
    /\ Len(Entries("resolve")[1].boundaries) = 2
    /\ Len(Entries("resolve")[1].audio) > 0

\* C28: whatever the order of the metadata stream's 'data' events and the
\* audio stream's 'data' and 'end' events, every WordBoundary event the
\* engine has sent for the chunk is among the boundaries the run has
\* accumulated for it.
C28_NoBoundaryMissed ==
    pc = "done" => allBoundaries = WordBoundariesIn(received)

-----------------------------------------------------------------------------
(* The voice catalog *)

\* the places in vlog where a fetch resolved
Resolved == {p \in 1..Len(vlog) : vlog[p].type = "resolve"}

\* the list the first fetch that resolved made
FirstFetched ==
    ToVoices(vlog[CHOOSE p \in Resolved : \A q \in Resolved : p <= q].rawVoices)

\* C20: the cache is empty exactly as long as no fetch has resolved (a fetch
\* that fails leaves it empty, and a call that finds it empty fetches); once
\* a fetch has resolved the cache holds the list that first fetch made, for
\* good, and every call made after it returns that list at once, without
\* calling the engine.
C20_CacheNeverReplaced ==
    /\ voicesCache.isNull <=> Resolved = {}
    /\ \A p \in 1..Len(vlog) :
          (vlog[p].type = "call" /\ \A q \in Resolved : q > p) =>
              vlog[p + 1] = [type |-> "fetch", id |-> vlog[p].id]
    /\ Resolved # {} =>
          /\ voicesCache.voices = FirstFetched
          /\ \A p \in 1..Len(vlog) :
                (vlog[p].type = "call" /\ \E q \in Resolved : q < p) =>
                    vlog[p + 1] = [type |-> "return", id |-> vlog[p].id,
                                   voices |-> FirstFetched]

\* the entries of one type in vlog, in order
VoiceEntries(type) == SelectSeq(vlog, LAMBDA e : e.type = type)

\* C29: whatever the order in which concurrent getVoices calls and the
\* answers of the engine come, the catalog is fetched at most once as long
\* as no fetch has failed, and the calls that have returned have all
\* returned the same list.
C29_OneFetch ==
    /\ Len(VoiceEntries("reject")) = 0 => Len(VoiceEntries("fetch")) <= 1
    /\ \A p, q \in 1..Len(VoiceEntries("return")) :
           VoiceEntries("return")[p].voices = VoiceEntries("return")[q].voices

-----------------------------------------------------------------------------
(* The subtitle generator *)

\* the boundaries generateSRT keeps: those with a text that is not blank and
\* a type other than PunctuationBoundary
Retained(bs) ==
    SelectSeq(bs, LAMBDA b : /\ Len(Trim(b.Text)) > 0
                             /\ b.BoundaryType # "PunctuationBoundary")

\* the words of the text lines of a document, in order
CueWords(doc) == Concat([c \in 1..Len(doc) |-> doc[c].text])

\* C11: the words of the text lines of the cues generateSRT returns, in cue
\* order, are the trimmed texts of the boundaries it was given, in order,
\* less exactly those that are blank or of type PunctuationBoundary (none
\* lost, duplicated or reordered), and the cues are numbered 1, 2, 3, ...
C11_CueTextIsRetainedWords ==
    srtpc = "returned" =>
        /\ CueWords(srtDoc)
              = [k \in 1..Len(Retained(srtArgs.boundaries)) |->
                    Trim(Retained(srtArgs.boundaries)[k].Text)]
        /\ \A c \in 1..Len(srtDoc) : srtDoc[c].index = c

\* a list of more than ten boundaries, with two dropped and a padded word
\* among them, came back as two cues, the first one full
C11_Witness ==
    /\ srtpc = "returned"
    /\ Len(srtDoc) = 2
    /\ Len(srtDoc[1].text) = WORDS_PER_SUBTITLE
    /\ Len(srtArgs.boundaries) > WORDS_PER_SUBTITLE
    /\ Len(Retained(srtArgs.boundaries)) < Len(srtArgs.boundaries) - 1
    /\ \E k \in 1..Len(srtArgs.boundaries) :
          Len(Trim(srtArgs.boundaries[k].Text))
              \in 1..(Len(srtArgs.boundaries[k].Text) - 1)

\* the number of words in the cues before cue c
CueWordsBefore(doc, c) == Len(CueWords(SubSeq(doc, 1, c - 1)))

\* the whole milliseconds of a time given in units of 1/MsScale ms
WholeMs(x) == x \div MsScale

\* C25: generateSRT closes a cue as soon as its group holds
\* WORDS_PER_SUBTITLE retained words or the word just added ends in '.', '!'
\* or '?', and makes a last cue of the words left over: every cue has 1 to
\* 10 words, no word but the last of a cue ends a sentence, every cue but
\* possibly the last has 10 words or ends a sentence, and a cue starts where
\* its first word starts and ends where its last word ends.
C25_CueClosing ==
    srtpc = "returned" =>
        LET kept == Retained(srtArgs.boundaries)
            Word(k) == Trim(kept[k].Text)
            StartMs(k) == ticksToMs(kept[k].Offset) + srtArgs.timeOffset
            EndMs(k) == StartMs(k) + ticksToMs(kept[k].Duration)
        IN  /\ Len(CueWords(srtDoc)) = Len(kept)
            /\ \A c \in 1..Len(srtDoc) :
                   LET first == CueWordsBefore(srtDoc, c) + 1
                       last == CueWordsBefore(srtDoc, c) + Len(srtDoc[c].text)
                   IN  /\ Len(srtDoc[c].text) \in 1..10
                       /\ \A k \in first..(last - 1) :
                              ~ (Word(k)[Len(Word(k))] \in {".", "!", "?"})
                       /\ c < Len(srtDoc) =>
                              \/ Len(srtDoc[c].text) = 10
                              \/ Word(last)[Len(Word(last))] \in {".", "!", "?"}
                       /\ SrtTimeMs(srtDoc[c].start) = WholeMs(StartMs(first))
                       /\ SrtTimeMs(srtDoc[c].end) = WholeMs(EndMs(last))

\* three cues came back: one closed at ten words, one closed after fewer
\* words by the end of a sentence, and the words left over
C25_Witness ==
    /\ srtpc = "returned"
    /\ Len(srtDoc) = 3
    /\ Len(srtDoc[1].text) = WORDS_PER_SUBTITLE
    /\ Len(srtDoc[2].text) < WORDS_PER_SUBTITLE
    /\ isEndOfSentence(srtDoc[2].text[Len(srtDoc[2].text)])
    /\ ~ isEndOfSentence(srtDoc[3].text[Len(srtDoc[3].text)])
    /\ srtDoc[3].start # srtDoc[2].end

-----------------------------------------------------------------------------
(* The audio-only variant *)

\* C26: in a run of the audio-only variant, a progress event for chunk c is
\* reported only after the synthesis of chunk c has completed, whatever the
\* number of chunks, one included: percent 100 is not reported before the
\* audio of the last chunk is there, and no progress event is reported for
\* a chunk whose synthesis failed.
C26_ProgressAfterSynthesis ==
    \A p \in 1..Len(log) :
        log[p].type = "progress" =>
            /\ \E q \in 1..(p - 1) :
                   log[q].type = "resolve" /\ log[q].chunk = log[p].current
            /\ \A q \in 1..Len(log) :
                   log[q].type = "reject" => log[q].chunk # log[p].current

-----------------------------------------------------------------------------
(* The component *)

\* the events the loop of handleGenerate has read
EventsRead == SubSeq(stream.events, 1, stream.read)

\* C27: a generation started in the component leaves the status
\* 'generating' (handleGenerate does not return with it); once the stream
\* has delivered an event of type 'error', the status is 'error' and
\* errorMessage is the message of the event; the status is 'ready' only
\* after an event of type 'complete' was read.
C27_GenerationSettles ==
    /\ hpc = "returned" => status # "generating"
    /\ \A k \in 1..Len(EventsRead) :
           EventsRead[k].type = "error" =>
               /\ status = "error"
               /\ errorMessage = EventsRead[k].message
    /\ status = "ready" =>
           \E k \in 1..Len(EventsRead) : EventsRead[k].type = "complete"

-----------------------------------------------------------------------------
(* The routes *)

\* the request was accepted by the streaming route
StreamAccepted == request.route = "tts-stream" /\ response.status = 200

\* the types of the events enqueued so far, in order
SseTypes == [k \in 1..Len(sse) |-> sse[k].type]

\* C12: on the stream of an accepted request the first event is 'start' and
\* no other is; after it come 'progress' events only, until one 'complete'
\* or 'error' event, which is the last event: there is at most one of the
\* two, nothing follows it, and the stream is closed exactly when it has
\* been enqueued.  A run that returned ends the stream with 'complete', a
\* run that threw with 'error', and an 'error' event carries a message only.
C12_SseSequence ==
    StreamAccepted =>
        /\ Len(sse) >= 1
        /\ sse[1].type = "start"
        /\ \A k \in 2..Len(sse) :
              sse[k].type \in {"progress", "complete", "error"}
        /\ \A k \in 1..Len(sse) :
              sse[k].type \in {"complete", "error"} => k = Len(sse)
        /\ closed <=> sse[Len(sse)].type \in {"complete", "error"}
        /\ pc = "done" <=> sse[Len(sse)].type = "complete"
        /\ pc = "failed" <=> sse[Len(sse)].type = "error"
        /\ \A k \in 1..Len(sse) :
              sse[k].type = "error" => DOMAIN sse[k] = {"type", "message"}

\* the second of two chunks failed: start, progress, error, closed
C12_Witness ==
    /\ StreamAccepted
    /\ SseTypes = <<"start", "progress", "error">>
    /\ closed

\* C13: a request without text or without voice, or with a text longer than
\* the limit, is answered with status 400 and nothing else has happened: no
\* chunking, no adapter call, no event on a stream.  A request with a voice
\* and a text of exactly the limit is not answered with 400, and its run has
\* called the adapter.
C13_RejectedBeforeWork ==
    (request.route # None /\ "malformed" \notin DOMAIN request.body) =>
        LET body == request.body
            absent == "text" \notin DOMAIN body \/ "voice" \notin DOMAIN body
            tooLong == "text" \in DOMAIN body /\ Len(body.text) > MaxTextLength
            atLimit == /\ ~absent
                       /\ Len(body.text) = MaxTextLength
                       /\ body.voice # ""
        IN  /\ (absent \/ tooLong) =>
                  /\ response.status = 400
                  /\ pc = "idle"
                  /\ textChunks = <<>>
                  /\ log = <<>>
                  /\ sse = <<>>
                  /\ ~closed
            /\ atLimit =>
                  /\ response.status # 400
                  /\ Len(Entries("call")) >= 1

\* a request with a voice and a text one character over the limit was
\* answered with 400
C13_Witness ==
    /\ request.route = "tts-stream"
    /\ DOMAIN request.body = {"text", "voice"}
    /\ request.body.voice # ""
    /\ Len(request.body.text) = MaxTextLength + 1
    /\ response.status = 400

\* the 'progress' events enqueued so far
SseProgress == SelectSeq(sse, LAMBDA e : e.type = "progress")

\* C14: on the stream of an accepted request, totalChunks of the 'start'
\* event is the number of chunks splitTextIntoChunks cuts the text into, the
\* number of chunks of the run, the total of every 'progress' event, and,
\* once 'complete' is enqueued, the number of 'progress' events before it.
C14_TotalChunksAgree ==
    StreamAccepted =>
        LET n == Len(splitTextIntoChunks(request.body.text, MAX_CHARS_PER_CHUNK))
        IN  /\ sse[1].totalChunks = n
            /\ Len(textChunks) = n
            /\ \A k \in 1..Len(SseProgress) : SseProgress[k].total = n
            /\ sse[Len(sse)].type = "complete" => Len(SseProgress) = n

\* a text of three chunks: start with totalChunks 3, three progress events,
\* complete
C14_Witness ==
    /\ StreamAccepted
    /\ sse[1].totalChunks = 3
    /\ SseTypes = <<"start", "progress", "progress", "progress", "complete">>

\* the digits of a string, in order
IsDigits(ds) == \A k \in 1..Len(ds) : \E d \in 1..10 : ds[k] = DigitChars[d]

\* C21: formatSrtTime(ms) of a whole number ms >= 0 of milliseconds writes
\* hours = ms div 3600000, minutes = (ms mod 3600000) div 60000, seconds =
\* (ms mod 60000) div 1000 and milliseconds = ms mod 1000, as HH:MM:SS,mmm
\* padded with zeros to 2, 2, 2 and 3 digits; minutes and seconds are in
\* 0..59, milliseconds in 0..999, the fields add up to ms, and 3661500 is
\* written 01:01:01,500.
C21_FormatFields ==
    (fn.name = "formatSrtTime" /\ ret.returned) =>
        LET ms == fn.ms
            ts == ret.value
            h == Len(ts) - 10
            HH == SubSeq(ts, 1, h)
            MM == SubSeq(ts, h + 2, h + 3)
            SS == SubSeq(ts, h + 5, h + 6)
            mmm == SubSeq(ts, h + 8, h + 10)
        IN  /\ h >= 2
            /\ ts[h + 1] = ":" /\ ts[h + 4] = ":" /\ ts[h + 7] = ","
            /\ IsDigits(HH) /\ IsDigits(MM) /\ IsDigits(SS) /\ IsDigits(mmm)
            /\ h > 2 => HH[1] # "0"
            /\ DigitsValue(HH) = ms \div 3600000
            /\ DigitsValue(MM) = (ms % 3600000) \div 60000
            /\ DigitsValue(SS) = (ms % 60000) \div 1000
            /\ DigitsValue(mmm) = ms % 1000
            /\ DigitsValue(MM) \in 0..59
            /\ DigitsValue(SS) \in 0..59
            /\ DigitsValue(mmm) \in 0..999
            /\ DigitsValue(HH) * 3600000 + DigitsValue(MM) * 60000
                   + DigitsValue(SS) * 1000 + DigitsValue(mmm) = ms
            /\ ms = 3661500 =>
                   ts = <<"0", "1", ":", "0", "1", ":", "0", "1", ",",
                          "5", "0", "0">>

\* formatSrtTime(3661500) returned
C21_Witness ==
    /\ fn.name = "formatSrtTime"
    /\ fn.ms = 3661500
    /\ ret.returned
    /\ Len(ret.value) = 12

\* C22: for a speed of 0.5 to 2.0 in steps of 0.01, mapSpeedToRate returns
\* the whole number (speed - 1) * 100 written in decimal and followed by
\* '%', with a '+' before it when it is >= 0 and its own '-' otherwise; the
\* number is in -50..100; 1.0 gives +0%, 1.25 gives +25%, 0.75 gives -25%.
C22_RateOfSpeed ==
    (fn.name = "mapSpeedToRate" /\ ret.returned) =>
        LET r == ret.value
            percentage == fn.speed - 100
            digits == SubSeq(r, 2, Len(r) - 1)
        IN  /\ Len(r) >= 3
            /\ r[Len(r)] = "%"
            /\ r[1] = (IF percentage >= 0 THEN "+" ELSE "-")
            /\ IsDigits(digits)
            /\ Len(digits) > 1 => digits[1] # "0"
            /\ DigitsValue(digits)
                   = (IF percentage >= 0 THEN percentage ELSE 0 - percentage)
            /\ r[1] = "+" => DigitsValue(digits) \in 0..100
            /\ r[1] = "-" => DigitsValue(digits) \in 1..50
            /\ fn.speed = 100 => r = <<"+", "0", "%">>
            /\ fn.speed = 125 => r = <<"+", "2", "5", "%">>
            /\ fn.speed = 75 => r = <<"-", "2", "5", "%">>

\* mapSpeedToRate(0.75) returned
C22_Witness ==
    /\ fn.name = "mapSpeedToRate"
    /\ fn.speed = 75
    /\ ret.returned
    /\ ret.value[1] = "-"

C30_AcceptedRequestSynthesizes ==
    /\ response.status = 200 => Len(Entries("call")) >= 1
    /\ StreamAccepted =>
           \A k \in 1..Len(sse) :
               /\ sse[k].type = "start" => sse[k].totalChunks # 0
               /\ sse[k].type = "complete" => Len(Entries("resolve")) >= 1

=============================================================================
